---- MODULE Spec2Model ----
(***************************************************************************)
(* Model of the external-provider layer of the Qwen CLI integration:       *)
(*   src/external_api_integrator.py  ExternalAPIIntegrator                 *)
(*   src/venice_integration.py       VeniceAIVerifier / ImageGenerator     *)
(*   src/gitkraken_integration.py    GitKrakenCLI                          *)
(*   src/qwen_cli_integrator.py      QwenCLIIntegrator, main               *)
(*                                                                         *)
(* Python values are modelled as tagged records.  Text that the code       *)
(* inspects character by character (credentials, environment variable      *)
(* names) is a sequence of one-character strings; text that is only        *)
(* compared as a whole (provider ids, model ids, urls) is a string.        *)
(***************************************************************************)
EXTENDS Integers, Sequences, FiniteSets, TLC

VARIABLES providers, env, pc, last, fs, clock, integrator

vars == <<providers, env, pc, last, fs, clock, integrator>>

(***************************************************************************)
(* Bounds of the model.                                                    *)
(***************************************************************************)
\* longest providers list of a configuration file
MaxRecords == 3
\* longest models list of a provider record
MaxModels == 2
\* longest scripted sequence of server outcomes
MaxServer == 6

(***************************************************************************)
(* Generic helpers.                                                        *)
(***************************************************************************)
SeqsUpTo(S, n) == UNION { [1..k -> S] : k \in 0..n }

\* F of the value of v: v is worked out once, however often F uses it
Bind(v, F(_)) == CHOOSE y \in { F(x) : x \in {v} } : TRUE

Range(s) == { s[i] : i \in 1..Len(s) }

Injective(s) == \A i, j \in 1..Len(s) : s[i] = s[j] => i = j

\* the marker of a key that is absent from a mapping (dict.get -> None)
Absent == "<absent>"

(***************************************************************************)
(* Python values of a credential entry.                                    *)
(***************************************************************************)
Str(s) == [t |-> "str", v |-> s]

\* a YAML scalar that is not a string, e.g.  openai: 7
NonStr == [t |-> "int", v |-> <<"7">>]

\* None, where a credential value is expected
NoneV == [t |-> "none", v |-> <<>>]

\* Python truthiness of a credential value
Truthy(x) ==
  IF x.t = "str" THEN x.v # <<>> ELSE IF x.t = "none" THEN FALSE ELSE TRUE

\* the name of the environment variable the generated configuration uses
EnvName ==
  <<"V", "E", "N", "I", "C", "E", "_", "A", "P", "I", "_", "K", "E", "Y">>

Placeholder(name) == <<"$", "{">> \o name \o <<"}">>

\* the credential values a provider record may store
CredValues ==
  { Str(<<>>), Str(<<"s", "k">>), Str(Placeholder(EnvName)),
    Str(Placeholder(<<>>)), NonStr }

KeyTypes == {"openai", "anthropic"}

(***************************************************************************)
(* Provider records as yaml.safe_load returns them.                        *)
(***************************************************************************)
\* api_keys: absent, not a mapping, or an insertion-ordered mapping
ApiKeyItems ==
  { s \in SeqsUpTo([k : KeyTypes, v : CredValues], Cardinality(KeyTypes)) :
      Injective([i \in 1..Len(s) |-> s[i].k]) }

ApiKeysValues ==
  { [t |-> "absent", items |-> <<>>], [t |-> "list", items |-> <<>>] }
  \cup { [t |-> "map", items |-> s] : s \in ApiKeyItems }

ModelIds == {"m1", "m2"}

\* the model ids a caller may ask for; "m3" is in no configuration
RequestedModelIds == ModelIds \cup {"m3"}

\* a model entry is a mapping that has an 'id' or has none
ModelEntries == { [id |-> m] : m \in ModelIds \cup {Absent} }

ModelsValues ==
  { [t |-> "absent", items |-> <<>>] }
  \cup { [t |-> "list", items |-> s] : s \in SeqsUpTo(ModelEntries, MaxModels) }

BaseUrls == {Absent, "", "https://u1", "https://u2"}

ProviderIds == {"p1", "p2"}

Provider(id, url, keys, models) ==
  [t |-> "dict", id |-> id, base_url |-> url, api_keys |-> keys,
   models |-> models]

\* an entry of the providers list that is not a mapping (a bare scalar)
NonDictRecord ==
  [t |-> "str", id |-> Absent, base_url |-> Absent,
   api_keys |-> [t |-> "absent", items |-> <<>>],
   models |-> [t |-> "absent", items |-> <<>>]]

(***************************************************************************)
(* The providers dict: insertion-ordered, as a sequence of [k, v].         *)
(***************************************************************************)
Keys(d) == [i \in 1..Len(d) |-> d[i].k]

HasKey(d, k) == \E i \in 1..Len(d) : d[i].k = k

Lookup(d, k) == d[CHOOSE i \in 1..Len(d) : d[i].k = k].v

\* an assignment that keeps the record already stored under the key
DictSetKeepFirst(d, k, v) ==
  IF HasKey(d, k) THEN d ELSE Append(d, [k |-> k, v |-> v])

\* d[k] = v : replaces in place, else appends
DictSet(d, k, v) ==
  IF HasKey(d, k)
  THEN [i \in 1..Len(d) |-> IF d[i].k = k THEN [k |-> k, v |-> v] ELSE d[i]]
  ELSE Append(d, [k |-> k, v |-> v])

(***************************************************************************)
(* Configuration files, as load_providers_from_config finds them.          *)
(*   missing     the path does not exist                                   *)
(*   unreadable  open() or yaml.safe_load raises                           *)
(*   nokey       a mapping without a top-level 'providers' key             *)
(*   ok          a mapping whose 'providers' key holds a list of records   *)
(***************************************************************************)
File(t, records) == [t |-> t, records |-> records]

\* the records a file of the loader's state machine declares
LoadRecords ==
  { Provider(id, url, [t |-> "absent", items |-> <<>>],
             [t |-> "absent", items |-> <<>>]) :
      id \in ProviderIds \cup {Absent}, url \in {"https://u1", "https://u2"} }
  \cup { NonDictRecord }

LoadFiles ==
  { File("missing", <<>>), File("unreadable", <<>>), File("nokey", <<>>) }
  \cup { File("ok", s) : s \in SeqsUpTo(LoadRecords, MaxRecords) }

(***************************************************************************)
(* ExternalAPIIntegrator.load_providers_from_config                        *)
(***************************************************************************)
\* the for loop of lines 87-90, from record i on; a record that is not a
\* mapping makes provider.get raise, which ends the loop where it stands
RECURSIVE LoadLoop(_, _, _)
LoadLoop(d, records, i) ==
  IF i > Len(records) THEN [providers |-> d, raised |-> FALSE]
  ELSE LET provider == records[i] IN
       IF provider.t # "dict" THEN [providers |-> d, raised |-> TRUE]
       ELSE IF provider.id # Absent /\ provider.id # ""
            THEN LoadLoop(DictSet(d, provider.id, provider), records, i + 1)
            ELSE LoadLoop(d, records, i + 1)

\* returns the new providers dict and the boolean the method returns
load_providers_from_config(d, file) ==
  IF file.t = "missing" THEN [providers |-> d, ret |-> FALSE]
  ELSE IF file.t = "unreadable" THEN [providers |-> d, ret |-> FALSE]
  ELSE IF file.t = "nokey" THEN [providers |-> d, ret |-> FALSE]
  ELSE LET r == LoadLoop(d, file.records, 1) IN
       [providers |-> r.providers, ret |-> ~r.raised]

get_available_providers(d) == Keys(d)

\* the None that dict.get returns for an unknown provider id
NoProvider == [NonDictRecord EXCEPT !.t = "none"]

get_provider_info(d, provider_id) ==
  IF HasKey(d, provider_id) THEN Lookup(d, provider_id) ELSE NoProvider

get_provider_models(d, provider_id) ==
  LET provider_info == get_provider_info(d, provider_id) IN
  IF provider_info.t = "none" THEN <<>> ELSE provider_info.models.items

(***************************************************************************)
(* ExternalAPIIntegrator.get_default_provider_api_key                      *)
(***************************************************************************)
\* the for loop of lines 154-160 over api_keys.items(), from item i on
RECURSIVE KeyLoop(_, _)
KeyLoop(items, i) ==
  IF i > Len(items) THEN NoneV
  ELSE IF items[i].k = "openai" THEN items[i].v
  ELSE IF Truthy(items[i].v) THEN items[i].v
  ELSE KeyLoop(items, i + 1)

\* raised: api_keys is not a mapping, so api_keys.items() raises
get_default_provider_api_key(d, provider_id) ==
  LET provider_info == get_provider_info(d, provider_id) IN
  IF provider_info.t = "none" \/ provider_info.api_keys.t = "absent"
  THEN [raised |-> FALSE, val |-> NoneV]
  ELSE IF provider_info.api_keys.t # "map"
  THEN [raised |-> TRUE, val |-> NoneV]
  ELSE [raised |-> FALSE, val |-> KeyLoop(provider_info.api_keys.items, 1)]

(***************************************************************************)
(* The process environment: os.environ.get(name).                          *)
(***************************************************************************)
EnvValues == { [set |-> FALSE, v |-> <<>>], [set |-> TRUE, v |-> <<>>],
               [set |-> TRUE, v |-> <<"t", "k">>] }

Envs == [{EnvName} -> EnvValues]

\* None for a variable that is not set
environ_get(e, name) ==
  IF name \in DOMAIN e /\ e[name].set THEN Str(e[name].v) ELSE NoneV

(***************************************************************************)
(* What the server does with one request.                                  *)
(*   status   it answers with an HTTP status; json: the body parses        *)
(*   error    the connection fails (requests raises a RequestException)    *)
(*   hang     it never answers                                             *)
(***************************************************************************)
Answer(code, json) == [t |-> "status", code |-> code, json |-> json]

ConnError == [t |-> "error", code |-> 0, json |-> FALSE]

Hang == [t |-> "hang", code |-> 0, json |-> FALSE]

StatusCodes == {200, 400, 401, 503}

Outcomes ==
  { Answer(c, TRUE) : c \in StatusCodes } \cup
  { Answer(200, FALSE), ConnError, Hang }

(***************************************************************************)
(* Results and requests.                                                   *)
(***************************************************************************)
\* timeout = None
NoTimeout == [set |-> FALSE, connect |-> 0, read |-> 0]

Timeout(c, r) == [set |-> TRUE, connect |-> c, read |-> r]

\* the keyword arguments of a request as they reach the transport
Request(method, base, path, auth, model, timeout) ==
  [method |-> method, base |-> base, path |-> path, auth |-> auth,
   model |-> model, timeout |-> timeout]

\* {'success': False, 'error': ...}; the message is a sequence of its parts
Failure(error) ==
  [kind |-> "return", success |-> FALSE, error |-> error, status |-> 0,
   exc |-> ""]

Success(status) ==
  [kind |-> "return", success |-> TRUE, error |-> <<>>, status |-> status,
   exc |-> ""]

\* an exception that leaves the method
Raise(exc) ==
  [kind |-> "raise", success |-> FALSE, error |-> <<>>, status |-> 0,
   exc |-> exc]

\* the method never returns
Blocked ==
  [kind |-> "blocked", success |-> FALSE, error |-> <<>>, status |-> 0,
   exc |-> ""]

\* no call has ended
NoRes == [kind |-> "none", success |-> FALSE, error |-> <<>>, status |-> 0,
          exc |-> ""]

\* the text of a transport exception, str(e)
CauseText == "Connection refused"

TimeoutText == "Read timed out"

\* the raw text of a response, response.text
BodyText == "<body>"

(***************************************************************************)
(* requests.post(url, ..., timeout=t): one request, no retry adapter.      *)
(* Gives the response, or the exception requests raises, or blocks.        *)
(***************************************************************************)
Transport(timeout, outcome) ==
  IF outcome.t = "status"
  THEN [t |-> "response", code |-> outcome.code, json |-> outcome.json,
        text |-> BodyText]
  ELSE IF outcome.t = "error"
  THEN [t |-> "exception", code |-> 0, json |-> FALSE, text |-> CauseText]
  ELSE IF timeout.set
  THEN [t |-> "exception", code |-> 0, json |-> FALSE, text |-> TimeoutText]
  ELSE [t |-> "blocked", code |-> 0, json |-> FALSE, text |-> ""]

(***************************************************************************)
(* ExternalAPIIntegrator.chat_completion                                   *)
(***************************************************************************)
\* line 215: startswith('${') and endswith('}')
IsPlaceholder(v) ==
  /\ Len(v) >= 2 /\ v[1] = "$" /\ v[2] = "{"
  /\ v[Len(v)] = "}"

\* line 216: api_key_placeholder[2:-1]
PlaceholderName(v) == SubSeq(v, 3, Len(v) - 1)

\* a listing that stops after the first model
AvailableModelsFirstOnly(models) ==
  [raised |-> \E i \in 1..Len(models) : models[i].id = Absent,
   ids |-> [i \in 1..(IF Len(models) > 0 THEN 1 ELSE 0) |-> models[i].id]]

\* line 227: [m['id'] for m in models]; raised: an entry has no 'id'
AvailableModels(models) ==
  [raised |-> \E i \in 1..Len(models) : models[i].id = Absent,
   ids |-> [i \in 1..Len(models) |-> models[i].id]]

\* line 256: timeout=30
ChatTimeout == 30

\* a POST without the timeout keyword
ChatTimeoutMissing == NoTimeout

\* requests applies a single number to the connect and to the read phase
ChatTimeoutArg == Timeout(ChatTimeout, ChatTimeout)

\* lines 254-277: the POST and the mapping of its outcome
ChatDispatch(provider_id, model_id, base_url, api_key, outcome) ==
  LET req == Request("POST", base_url, "/chat/completions", api_key,
                     model_id, ChatTimeoutArg)
      r == Transport(req.timeout, outcome)
  IN  [posts |-> <<req>>,
       res |->
         IF r.t = "blocked" THEN Blocked
         ELSE IF r.t = "exception"
         THEN Failure(<<"Request failed: ", r.text>>)
         ELSE IF r.code = 200
         THEN IF r.json THEN Success(200)
              ELSE Failure(<<"Unexpected error: ", "invalid JSON">>)
         ELSE [Failure(<<"API request failed with status ", ": ", r.text>>)
                 EXCEPT !.status = r.code]]

NoPost(res) == [posts |-> <<>>, res |-> res]

\* lines 192-277; outcome is what the server does with the POST, if sent
chat_completion(d, e, provider_id, model_id, outcome) ==
  LET provider_info == get_provider_info(d, provider_id)
      base_url == provider_info.base_url
      key == get_default_provider_api_key(d, provider_id)
      api_key_placeholder == key.val
      is_env == IsPlaceholder(api_key_placeholder.v)
      env_var_name == PlaceholderName(api_key_placeholder.v)
      api_key == IF is_env THEN environ_get(e, env_var_name)
                 ELSE api_key_placeholder
      available_models == AvailableModels(get_provider_models(d, provider_id))
  IN
  IF provider_info.t = "none"
  THEN NoPost(Failure(<<"Provider ", provider_id,
                        " not found in configuration">>))
  ELSE IF base_url = Absent \/ base_url = ""
  THEN NoPost(Failure(<<"No base_url found for provider ", provider_id>>))
  ELSE IF key.raised THEN NoPost(Raise("AttributeError"))
  ELSE IF ~Truthy(api_key_placeholder)
  THEN NoPost(Failure(<<"No API key found for provider ", provider_id>>))
  ELSE IF api_key_placeholder.t # "str" THEN NoPost(Raise("AttributeError"))
  ELSE IF is_env /\ ~Truthy(api_key)
  THEN NoPost(Failure(<<"Environment variable ">> \o env_var_name
                      \o <<" for API key not set">>))
  ELSE IF available_models.raised THEN NoPost(Raise("KeyError"))
  ELSE IF model_id \notin Range(available_models.ids)
  THEN NoPost(Failure(<<"Model ", model_id, " not available for provider ",
                        provider_id, ". Available: ">>
                      \o available_models.ids))
  ELSE ChatDispatch(provider_id, model_id, base_url, api_key.v, outcome)

(***************************************************************************)
(* The JSON body of the POST of chat_completion, an insertion-ordered      *)
(* dict; a value is None, a string, a number or the list of messages.      *)
(***************************************************************************)
NoVal == [t |-> "none", s |-> "", n |-> 0]

SVal(s) == [t |-> "str", s |-> s, n |-> 0]

NVal(n) == [t |-> "num", s |-> "", n |-> n]

Messages == [t |-> "list", s |-> "messages", n |-> 1]

\* bool(x)
ValTruthy(x) == x.t # "none" /\ (x.t = "num" => x.n # 0) /\ (x.t = "str" => x.s # "")

\* the arguments of a call besides provider_id and model_id: temperature
\* is in tenths, kwargs holds the keyword arguments that match no parameter
CallArgs(messages, temperature, max_tokens, kwargs) ==
  [messages |-> messages, temperature |-> temperature,
   max_tokens |-> max_tokens, kwargs |-> kwargs]

\* messages, temperature=0.7, max_tokens=None and no other keyword
DefaultCall == CallArgs(Messages, NVal(7), NoVal, <<>>)

\* lines 250-252: for key, value in kwargs.items(), from the i-th on
RECURSIVE AddKwargs(_, _, _)
AddKwargs(data, kwargs, i) ==
  IF i > Len(kwargs) THEN data
  ELSE AddKwargs(IF kwargs[i].v.t # "none"
                 THEN DictSet(data, kwargs[i].k, kwargs[i].v)
                 ELSE data,
                 kwargs, i + 1)

\* lines 240-252: data
ChatData(model_id, call) ==
  LET data == <<[k |-> "model", v |-> SVal(model_id)],
                [k |-> "messages", v |-> call.messages],
                [k |-> "temperature", v |-> call.temperature]>>
  IN AddKwargs(IF ValTruthy(call.max_tokens)
               THEN DictSet(data, "max_tokens", call.max_tokens)
               ELSE data,
               call.kwargs, 1)

\* chat_completion called with all its arguments: data is the body of the
\* POST, if one is sent, and the request carries the body's 'model'
chat_completion_with(d, e, provider_id, model_id, call, outcome) ==
  Bind(chat_completion(d, e, provider_id, model_id, outcome), LAMBDA r :
    IF r.posts = <<>> THEN [posts |-> r.posts, res |-> r.res, data |-> <<>>]
    ELSE Bind(ChatData(model_id, call), LAMBDA data :
           [posts |-> <<[r.posts[1]
                           EXCEPT !.model = Lookup(data, "model").s]>>,
            res |-> r.res, data |-> data]))
(***************************************************************************)
(* The retrying session of venice_integration.py (_session,_with_timeouts) *)
(***************************************************************************)
\* Retry(total=5, read=5, connect=5, ...)
RetryTotal == 5

RetryRead == 5

RetryConnect == 5

\* status_forcelist
StatusForcelist == {429, 500, 502, 503, 504}

\* allowed_methods
AllowedMethods == {"GET", "POST"}

\* _session(timeout_connect=10, timeout_read=120)
TimeoutConnect == 10

TimeoutRead == 120

\* the keyword 'timeout' of one call: not given, or given with a value
NoOverride == [given |-> FALSE, value |-> NoTimeout]

\* wrapper of _with_timeouts: kwargs.pop("timeout", (timeouts[0], timeouts[1]))
WithTimeouts(timeouts, override) ==
  IF override.given THEN override.value ELSE Timeout(timeouts[1], timeouts[2])

SessionTimeouts == <<TimeoutConnect, TimeoutRead>>

NewRetry == [total |-> RetryTotal, connect |-> RetryConnect, read |-> RetryRead]

\* a counter that allows one retry more than configured
ExhaustedOneLate(retry) ==
  retry.total < -1 \/ retry.connect < -1 \/ retry.read < -1

\* Retry.is_exhausted: a counter has gone below zero
Exhausted(retry) == retry.total < 0 \/ retry.connect < 0 \/ retry.read < 0

\* the outcome of attempt i: the script, then a server that answers 200
OutcomeAt(script, i) == IF i <= Len(script) THEN script[i] ELSE Answer(200, TRUE)

\* HTTPAdapter.send with max_retries=retry: attempt i of one request.
\* sent counts the attempts that went out on the wire.
RECURSIVE AdapterSend(_, _, _, _, _)
AdapterSend(method, timeout, retry, script, i) ==
  LET o == OutcomeAt(script, i)
      r == Transport(timeout, o)
      retryable == method \in AllowedMethods
      next == IF r.t = "response" THEN [retry EXCEPT !.total = @ - 1]
              ELSE IF o.t = "error"
              THEN [retry EXCEPT !.total = @ - 1, !.connect = @ - 1]
              ELSE [retry EXCEPT !.total = @ - 1, !.read = @ - 1]
  IN
  IF r.t = "blocked" THEN [r EXCEPT !.text = ""] @@ [sent |-> i]
  ELSE IF r.t = "response" /\ ~(retryable /\ r.code \in StatusForcelist)
  THEN r @@ [sent |-> i]
  ELSE IF r.t = "exception" /\ o.t = "hang" /\ ~retryable
  THEN r @@ [sent |-> i]
  ELSE IF Exhausted(next)
  THEN [t |-> "exception", code |-> 0, json |-> FALSE,
        text |-> "Max retries exceeded", sent |-> i]
  ELSE AdapterSend(method, timeout, next, script, i + 1)

\* s.post / s.get of a session built by _session, from position 'from' of
\* the server script on
SessionRequest(method, base, path, auth, override, script) ==
  LET timeout == WithTimeouts(SessionTimeouts, override)
      req == Request(method, base, path, auth, "", timeout)
  IN Bind(AdapterSend(method, timeout, NewRetry, script, 1), LAMBDA r :
       [r |-> r, posts |-> [k \in 1..r.sent |-> req]])

(***************************************************************************)
(* The Venice operations, as far as their network calls go.                *)
(***************************************************************************)
VeniceBase == "https://api.venice.ai/api/v1"

\* self.api_key of the verifier and of the image generator
VeniceKey == <<"v", "k">>

Drop(script, n) == SubSeq(script, n + 1, Len(script))

\* VeniceAIVerifier.verify_api_key
verify_api_key(script) ==
  LET sr == SessionRequest("POST", VeniceBase, "/chat/completions",
                           VeniceKey, NoOverride, script)
      resp == sr.r
  IN [posts |-> sr.posts,
      res |->
        IF resp.t = "blocked" THEN Blocked
        ELSE IF resp.t = "exception"
        THEN Failure(<<"Request failed: ", resp.text>>)
        ELSE IF resp.code \in {200, 400}
        THEN Success(resp.code)
        ELSE IF resp.code = 401
        THEN [Failure(<<"Invalid API key">>) EXCEPT !.status = resp.code]
        ELSE [Failure(<<"API returned unexpected status: ">>)
                EXCEPT !.status = resp.code]]

\* VeniceAIVerifier.fetch_models
fetch_models(script) ==
  LET sr == SessionRequest("GET", VeniceBase, "/models", VeniceKey,
                           NoOverride, script)
      resp == sr.r
  IN [posts |-> sr.posts,
      res |->
        IF resp.t = "blocked" THEN Blocked
        ELSE IF resp.t = "exception"
        THEN Failure(<<"Request failed: ", resp.text>>)
        ELSE IF resp.code >= 400
        THEN [Failure(<<"HTTP error: ">>) EXCEPT !.status = resp.code]
        ELSE IF ~resp.json
        THEN Failure(<<"Unexpected error: ", "invalid JSON">>)
        ELSE Success(resp.code)]

(***************************************************************************)
(* VeniceAIImageGenerator: the dimensions of a generation request.         *)
(* A width or height is None or an integer number of pixels.               *)
(***************************************************************************)
\* self.aspect_to_size, in insertion order
aspect_to_size ==
  << [k |-> "square", v |-> <<1024, 1024>>],
     [k |-> "tall", v |-> <<768, 1024>>],
     [k |-> "wide", v |-> <<1024, 768>>] >>

\* the outcome of a helper that returns a value or raises
Returned(v) == [raised |-> FALSE, exc |-> "", msg |-> <<>>, v |-> v]

Raised(exc, msg) == [raised |-> TRUE, exc |-> exc, msg |-> msg, v |-> <<>>]

_size_from_aspect(aspect) ==
  IF ~HasKey(aspect_to_size, aspect)
  THEN Raised("ValueError", <<"Invalid aspect ratio: ", aspect,
                              ". Choose from ", Keys(aspect_to_size)>>)
  ELSE Returned(Lookup(aspect_to_size, aspect))

\* an Optional[int] argument: an integer, or None
IntV(n) == [t |-> "int", v |-> n]

NoInt == [t |-> "none", v |-> 0]

\* Python truthiness of an Optional[int]
IntTruthy(x) == x.t = "int" /\ x.v # 0

\* line 533: if width and height: return int(width), int(height)
_effective_dims(aspect, width, height) ==
  IF IntTruthy(width) /\ IntTruthy(height)
  THEN Returned(<<width.v, height.v>>)
  ELSE _size_from_aspect(aspect)

(***************************************************************************)
(* The body of a 2xx response of the image endpoints, and its decoding.    *)
(* A body is raw image bytes under an image/ content type, or a JSON       *)
(* object whose "image" and "images" members may be absent, a string, a    *)
(* list, or a value of another type.                                       *)
(***************************************************************************)
\* longest "images" list of a response
MaxImages == 2

JAbsent == [t |-> "absent"]

\* a JSON value that is neither a string nor a list: a number, null, ..
JOther == [t |-> "other"]

JStr(text) == [t |-> "str", v |-> text]

JList(items) == [t |-> "list", items |-> items]

\* base64 texts and the bytes they stand for
Base64Texts == {"QQ==", "Qg=="}

\* bytes are sequences
b64decode ==
  [text \in Base64Texts |-> IF text = "QQ==" THEN <<"A">> ELSE <<"B">>]

\* resp.content of a binary response
RawBytes == <<"R">>

BinaryBody ==
  [ctype |-> <<"image/", "png">>, content |-> RawBytes,
   image |-> JAbsent, images |-> JAbsent]

JsonBody(image, images) ==
  [ctype |-> <<"application/", "json">>, content |-> <<>>,
   image |-> image, images |-> images]

ImageValues == {JAbsent, JOther} \cup { JStr(t) : t \in Base64Texts }

\* the lists of at most n elements of S
RECURSIVE ListsUpTo(_, _)
ListsUpTo(S, n) ==
  IF n = 0 THEN {<<>>}
  ELSE LET shorter == ListsUpTo(S, n - 1)
       IN shorter \cup { Append(l, x) : l \in shorter, x \in S }

ImagesValues ==
  {JAbsent, JOther} \cup
  { JList(l) : l \in ListsUpTo({JOther} \cup { JStr(t) : t \in Base64Texts },
                               MaxImages) }

Bodies ==
  {BinaryBody} \cup
  { JsonBody(i, l) : i \in ImageValues, l \in ImagesValues }

\* _is_binary_image_response: ctype.startswith("image/")
_is_binary_image_response(body) == body.ctype[1] = "image/"

\* [img for img in result["images"] if isinstance(img, str)]
StringsOf(items) == SelectSeq(items, LAMBDA e : e.t = "str")

\* generate_image, lines 649-669: the bytes of the generated image
DecodeGenerated(body) ==
  IF _is_binary_image_response(body) THEN Returned(body.content)
  ELSE IF body.images.t = "list"
  THEN IF StringsOf(body.images.items) = <<>>
       THEN Raised("ValueError", <<"No image generated.">>)
       ELSE Returned(b64decode[StringsOf(body.images.items)[1].v])
  ELSE IF body.image.t = "str"
  THEN Returned(b64decode[body.image.v])
  ELSE Raised("KeyError", <<"No images found in generation response.">>)

\* base64.b64decode of a JSON value: a value that is no string is a
\* TypeError
B64DecodeValue(x) ==
  IF x.t = "str" THEN Returned(b64decode[x.v])
  ELSE Raised("TypeError", <<"argument should be a bytes-like object">>)

_decode_image_from_json(payload) ==
  IF payload.image.t = "str" THEN Returned(b64decode[payload.image.v])
  ELSE IF payload.images.t = "list" /\ payload.images.items # <<>>
  THEN B64DecodeValue(payload.images.items[1])
  ELSE Raised("KeyError", <<"No image data found in response JSON.">>)

\* upscale_image_bytes, lines 832-837: the bytes of the upscaled image
DecodeUpscaled(body) ==
  IF _is_binary_image_response(body) THEN Returned(body.content)
  ELSE _decode_image_from_json(body)

(***************************************************************************)
(* Files.  A path is a record of its directory, stem, tail and suffixes;   *)
(* a file holds data, complete or cut short by a write that did not end.   *)
(***************************************************************************)
\* the wall clock ticks several times a second
TicksPerSecond == 2
\* last tick of the clock
MaxClock == 2
\* a call is made only while the disk holds at most this many files
MaxFiles == 2

\* output_name or 'venice_image', with output_name left at None
OutputName == "venice_image"

\* output_format
OutputFormat == "png"

\* f"s{seed}" if seed is not None else "rnd"
seed_tag(seed) == IF seed.t = "none" THEN <<"rnd">> ELSE <<"s">> \o seed.v

\* time.strftime("%Y%m%d_%H%M%S", time.gmtime()): whole seconds
ts_short(now) == now \div TicksPerSecond

\* f"{output_name or 'venice_image'}_{seed_tag}_{ts_short}_1"
Stem(seed, now) ==
  [name |-> OutputName, tag |-> seed_tag(seed), ts |-> ts_short(now)]

NoStem == [name |-> "", tag |-> <<>>, ts |-> 0]

NoPath == [dir |-> "", stem |-> NoStem, tail |-> <<>>, suffix |-> <<>>]

\* out_dir / f"{stem}.{output_format}"
img_path(stem) ==
  [dir |-> "out", stem |-> stem, tail |-> <<>>, suffix |-> <<OutputFormat>>]

\* meta_dir / f"{stem}.json"
meta_path(stem) ==
  [dir |-> "out/metadata", stem |-> stem, tail |-> <<>>,
   suffix |-> <<"json">>]

\* upscaled_dir / f"{stem}_upscaled.{output_format}"
up_path(stem) ==
  [dir |-> "out/upscaled", stem |-> stem, tail |-> <<"_upscaled">>,
   suffix |-> <<OutputFormat>>]

\* meta_dir / f"{stem}_upscaled.json"
up_meta_path(stem) ==
  [dir |-> "out/metadata", stem |-> stem, tail |-> <<"_upscaled">>,
   suffix |-> <<"json">>]

\* path.with_suffix(path.suffix + ".part")
PartOf(path) == [path EXCEPT !.suffix = Append(@, "part")]

\* path_obj.with_name(f"{path_obj.stem}_upscaled{path_obj.suffix}")
UpscaledName(path) == [path EXCEPT !.tail = Append(@, "_upscaled")]

_sha256(data) == <<"sha256", data>>

Whole(data) == [data |-> data, complete |-> TRUE]

CutShort(data) == [data |-> data, complete |-> FALSE]

Put(d, path, file) == (path :> file) @@ d

Remove(d, path) == [q \in DOMAIN d \ {path} |-> d[q]]

\* a directory is an entry of the disk too
DirPath(dir) == [NoPath EXCEPT !.dir = dir, !.tail = <<"/">>]

IsDir(path) == path.tail = <<"/">>

\* the files of a disk
Files(d) == { p \in DOMAIN d : ~IsDir(p) }

\* p.mkdir(parents=True, exist_ok=True)
_ensure_dir(d, dir) ==
  IF DirPath(dir) \in DOMAIN d THEN d ELSE Put(d, DirPath(dir), Whole(<<>>))

\* lines 675-680: out_dir, upscaled_dir, meta_dir
EnsureDirs(d) ==
  _ensure_dir(_ensure_dir(_ensure_dir(d, "out"), "out/upscaled"),
              "out/metadata")

\* what disturbs a call: nothing, or the write of one file fails part-way
\* with an OSError, or the process is killed part-way through it
NoFault == [at |-> "none", how |-> "none"]

Fault(at, how) == [at |-> at, how |-> how]

FaultAt(fault, site) == IF fault.at = site THEN fault.how ELSE "none"

\* a write straight to the final path: with open(path, "w") as f: ...
WriteDirect(d, path, data, how) ==
  IF how = "none" THEN [fs |-> Put(d, path, Whole(data)), end |-> "ok"]
  ELSE [fs |-> Put(d, path, CutShort(data)), end |-> how]

\* _save_bytes: write path.part, then tmp.replace(path)
_save_bytes(d, path, data, how) ==
  IF how = "none"
  THEN [fs |-> Put(Remove(d, PartOf(path)), path, Whole(data)), end |-> "ok"]
  ELSE [fs |-> Put(d, PartOf(path), CutShort(data)), end |-> how]

(***************************************************************************)
(* VeniceAIImageGenerator: upscale_image_bytes, generate_image and         *)
(* upscale_image_file.  body is the content of the 2xx response the        *)
(* server gives when the script says its JSON is well-formed.              *)
(***************************************************************************)
\* what a call that made no file reports
NoOut ==
  [img |-> NoPath, meta |-> NoPath, sha |-> <<>>, up |-> NoPath,
   up_meta |-> NoPath, up_error |-> <<>>, bytes |-> <<>>]

\* the arguments of generate_image that the model varies
Args(aspect, width, height, seed, auto_upscale) ==
  [aspect |-> aspect, width |-> width, height |-> height, seed |-> seed,
   auto_upscale |-> auto_upscale]

NoArgs == Args("", NoInt, NoInt, NoneV, FALSE)

\* raises unless an image comes; returns its bytes
upscale_image_bytes(script, body) ==
  Bind(SessionRequest("POST", VeniceBase, "/image/upscale", VeniceKey,
                      NoOverride, script), LAMBDA sr :
  LET resp == sr.r
      dec == DecodeUpscaled(body)
      res == IF resp.t = "blocked" THEN Blocked
             ELSE IF resp.t = "exception" THEN Raise("RequestException")
             ELSE IF resp.code >= 400 THEN Raise("HTTPError")
             ELSE IF ~resp.json THEN Raise("ValueError")
             ELSE IF dec.raised THEN Raise(dec.exc)
             ELSE Success(resp.code)
  IN [posts |-> sr.posts, res |-> res,
      bytes |-> IF res.kind = "return" THEN dec.v ELSE <<>>])

\* lines 676-690, 720-722: the metadata record of a generated image
MetaPayload(args, b, path) ==
  [mode |-> "generate", aspect_ratio |-> args.aspect,
   width |-> args.width, height |-> args.height, seed |-> args.seed,
   output_sha256 |-> _sha256(b), output_path |-> path]

\* the metadata written first, then the image
SaveGeneratedMetadataFirst(d, stem, args, b, fault) ==
  LET meta == WriteDirect(EnsureDirs(d), meta_path(stem),
                          MetaPayload(args, b, img_path(stem)),
                          FaultAt(fault, "meta"))
      img == _save_bytes(meta.fs, img_path(stem), b, FaultAt(fault, "img"))
  IN IF meta.end # "ok" THEN meta ELSE img

\* lines 675-722: the directories, the image, then its metadata
SaveGenerated(d, stem, args, b, fault) ==
  LET img == _save_bytes(EnsureDirs(d), img_path(stem), b,
                         FaultAt(fault, "img"))
      meta == WriteDirect(img.fs, meta_path(stem),
                          MetaPayload(args, b, img_path(stem)),
                          FaultAt(fault, "meta"))
  IN IF img.end # "ok" THEN img ELSE meta

\* an except clause that reports the upscaled paths all the same
UpscaleCaughtKeepsPath(disk, posts, stem, e) ==
  [fs |-> disk, end |-> "caught", posts |-> posts, error |-> <<e>>,
   up |-> up_path(stem), up_meta |-> up_meta_path(stem)]

\* lines 770-773: except Exception as e: result_dict["upscale_error"]
UpscaleCaught(disk, posts, stem, e) ==
  [fs |-> disk, end |-> "caught", posts |-> posts, error |-> <<e>>,
   up |-> NoPath, up_meta |-> NoPath]

\* lines 732-774: the try block of auto_upscale and its except clause
UpscaleStep(d, stem, script, upbody, fault) ==
  Bind(upscale_image_bytes(script, upbody), LAMBDA up :
  LET img == _save_bytes(d, up_path(stem), up.bytes, FaultAt(fault, "up"))
      meta == WriteDirect(img.fs, up_meta_path(stem),
                          [mode |-> "upscale_post_gen",
                           source_image |-> img_path(stem),
                           output_sha256 |-> _sha256(up.bytes),
                           output_path |-> up_path(stem)],
                          FaultAt(fault, "upmeta"))
      Gone(disk, how) ==
        [fs |-> disk, end |-> how, posts |-> up.posts, error |-> <<>>,
         up |-> NoPath, up_meta |-> NoPath]
  IN
  IF up.res.kind = "blocked" THEN Gone(d, "blocked")
  ELSE IF up.res.kind = "raise"
  THEN UpscaleCaught(d, up.posts, stem, up.res.exc)
  ELSE IF img.end = "kill" THEN Gone(img.fs, "kill")
  ELSE IF img.end = "oserror"
  THEN UpscaleCaught(img.fs, up.posts, stem, "OSError")
  ELSE IF meta.end = "kill" THEN Gone(meta.fs, "kill")
  ELSE IF meta.end = "oserror"
  THEN UpscaleCaught(meta.fs, up.posts, stem, "OSError")
  ELSE [fs |-> meta.fs, end |-> "ok", posts |-> up.posts, error |-> <<>>,
        up |-> up_path(stem), up_meta |-> up_meta_path(stem)])

\* the process was killed during the call
Killed ==
  [kind |-> "killed", success |-> FALSE, error |-> <<>>, status |-> 0,
   exc |-> ""]

\* what a call leaves behind: outcome, requests, disk, reported result
Ends(res, posts, disk, out) ==
  [res |-> res, posts |-> posts, fs |-> disk, out |-> out]

generate_image(d, now, args, script, body, upbody, fault) ==
  LET dims == _effective_dims(args.aspect, args.width, args.height)
      dec == DecodeGenerated(body)
      stem == Stem(args.seed, now)
  IN
  Bind(SessionRequest("POST", VeniceBase, "/image/generate", VeniceKey,
                      NoOverride, script), LAMBDA sr :
  Bind(SaveGenerated(d, stem, args, dec.v, fault), LAMBDA saved :
  Bind(UpscaleStep(saved.fs, stem, Drop(script, sr.r.sent), upbody, fault),
       LAMBDA step :
  LET resp == sr.r
      \* the body of the request carries "width": w, "height": h
      posts == [k \in DOMAIN sr.posts |->
                  [width |-> dims.v[1], height |-> dims.v[2]] @@ sr.posts[k]]
      out == [NoOut EXCEPT !.img = img_path(stem), !.meta = meta_path(stem),
                           !.sha = _sha256(dec.v), !.bytes = dec.v]
  IN
  IF dims.raised THEN Ends(Raise(dims.exc), <<>>, d, NoOut)
  ELSE IF resp.t = "blocked" THEN Ends(Blocked, posts, d, NoOut)
  ELSE IF resp.t = "exception"
  THEN Ends(Raise("RequestException"), posts, d, NoOut)
  ELSE IF resp.code >= 400 THEN Ends(Raise("HTTPError"), posts, d, NoOut)
  ELSE IF ~resp.json THEN Ends(Raise("ValueError"), posts, d, NoOut)
  ELSE IF dec.raised THEN Ends(Raise(dec.exc), posts, d, NoOut)
  ELSE IF saved.end = "kill" THEN Ends(Killed, posts, saved.fs, NoOut)
  ELSE IF saved.end = "oserror"
  THEN Ends(Raise("OSError"), posts, saved.fs, NoOut)
  ELSE IF ~args.auto_upscale
  THEN Ends(Success(resp.code), posts, saved.fs, out)
  ELSE IF step.end = "blocked"
  THEN Ends(Blocked, posts \o step.posts, step.fs, NoOut)
  ELSE IF step.end = "kill"
  THEN Ends(Killed, posts \o step.posts, step.fs, NoOut)
  ELSE Ends([Success(resp.code) EXCEPT !.error = step.error],
            posts \o step.posts, step.fs,
            [out EXCEPT !.up = step.up, !.up_meta = step.up_meta,
                        !.up_error = step.error]))))

\* upscale_image_file with output_path left at None
upscale_image_file(d, image_path, script, body, fault) ==
  Bind(upscale_image_bytes(script, body), LAMBDA up :
  LET output_path == UpscaledName(image_path)
      w == WriteDirect(d, output_path, up.bytes, FaultAt(fault, "out"))
  IN
  IF image_path \notin DOMAIN d
  THEN Ends(Raise("FileNotFoundError"), <<>>, d, NoOut)
  ELSE IF up.res.kind # "return" THEN Ends(up.res, up.posts, d, NoOut)
  ELSE IF w.end = "kill" THEN Ends(Killed, up.posts, w.fs, NoOut)
  ELSE IF w.end = "oserror" THEN Ends(Raise("OSError"), up.posts, w.fs, NoOut)
  ELSE Ends(Success(up.res.status), up.posts, w.fs,
            [NoOut EXCEPT !.img = image_path, !.up = output_path,
                          !.sha = _sha256(up.bytes), !.bytes = up.bytes]))

(***************************************************************************)
(* VeniceAIConfigUpdater: the providers file made from the model catalog.  *)
(***************************************************************************)
\* ~/.config/raycast/ai/providers.yaml
ConfigPath == [NoPath EXCEPT !.dir = "raycast", !.suffix = <<"yaml">>]

\* a line of the YAML text: its nesting depth, its key, and its scalar,
\* which is a name (s) or a credential (c)
Line(depth, k, s, c) == [depth |-> depth, k |-> k, s |-> s, c |-> c]

CredLines(items) ==
  [i \in 1..Len(items) |-> Line(2, items[i].k, "", items[i].v.v)]

ModelLines(items) == [i \in 1..Len(items) |-> Line(2, "id", items[i].id, <<>>)]

ProviderLines(provider) ==
  <<Line(1, "id", provider.id, <<>>),
    Line(1, "base_url", provider.base_url, <<>>),
    Line(1, "api_keys", "", <<>>)>>
    \o CredLines(provider.api_keys.items)
    \o <<Line(1, "models", "", <<>>)>>
    \o ModelLines(provider.models.items)

RECURSIVE RecordLines(_, _)
RecordLines(records, i) ==
  IF i > Len(records) THEN <<>>
  ELSE ProviderLines(records[i]) \o RecordLines(records, i + 1)

\* yaml.dump(config, file, sort_keys=False): the text, line by line
yaml_dump(config) ==
  <<Line(0, "providers", "", <<>>)>> \o RecordLines(config.providers, 1)

\* the records of the text from line i on; section is the mapping or list
\* the lines of depth 2 belong to
RECURSIVE ParseLines(_, _, _, _)
ParseLines(text, i, records, section) ==
  IF i > Len(text) THEN records
  ELSE IF text[i].depth = 1 /\ text[i].k = "id"
  THEN ParseLines(text, i + 1,
                  Append(records,
                         Provider(text[i].s, Absent,
                                  [t |-> "absent", items |-> <<>>],
                                  [t |-> "absent", items |-> <<>>])), "")
  ELSE IF records = <<>> THEN ParseLines(text, i + 1, records, section)
  ELSE IF text[i].depth = 1 /\ text[i].k = "base_url"
  THEN ParseLines(text, i + 1,
                  [records EXCEPT ![Len(records)].base_url = text[i].s], "")
  ELSE IF text[i].depth = 1 /\ text[i].k \in {"api_keys", "models"}
  THEN ParseLines(text, i + 1,
                  IF text[i].k = "api_keys"
                  THEN [records EXCEPT ![Len(records)].api_keys =
                                         [t |-> "map", items |-> <<>>]]
                  ELSE [records EXCEPT ![Len(records)].models =
                                         [t |-> "list", items |-> <<>>]],
                  text[i].k)
  ELSE IF text[i].depth = 2 /\ section = "api_keys"
  THEN ParseLines(text, i + 1,
                  [records EXCEPT ![Len(records)].api_keys.items =
                     Append(@, [k |-> text[i].k, v |-> Str(text[i].c)])],
                  section)
  ELSE IF text[i].depth = 2 /\ section = "models"
  THEN ParseLines(text, i + 1,
                  [records EXCEPT ![Len(records)].models.items =
                     Append(@, [id |-> text[i].s])],
                  section)
  ELSE ParseLines(text, i + 1, records, section)

\* yaml.safe_load of a text, as load_providers_from_config finds it
safe_load(text) ==
  IF text = <<>> \/ text[1].k # "providers" THEN File("nokey", <<>>)
  ELSE File("ok", ParseLines(text, 2, <<>>, ""))

\* the catalog the server answers a fetch with when none is given
Catalog == <<[id |-> "m1"]>>

\* the configuration with the updater's own key in the place of the
\* placeholder
raycast_configWithKey(api_key, models_data) ==
  [providers |->
     <<Provider("venice", VeniceBase,
                [t |-> "map", items |-> <<[k |-> "openai", v |-> Str(api_key)]>>],
                [t |-> "list",
                 items |-> [i \in 1..Len(models_data) |->
                              [id |-> models_data[i].id]]])>>]

\* lines 222-273: config, for an updater whose verifier holds api_key; of
\* a model entry the id is kept, the loader reads no other field
raycast_config(api_key, models_data) ==
  [providers |->
     <<Provider("venice", VeniceBase,
                [t |-> "map",
                 items |-> <<[k |-> "openai",
                              v |-> Str(Placeholder(EnvName))]>>],
                [t |-> "list",
                 items |-> [i \in 1..Len(models_data) |->
                              [id |-> models_data[i].id]]])>>]

\* what yaml.dump writes for the default catalog
ConfigText == yaml_dump(raycast_config(VeniceKey, Catalog))

\* the requests of a verifier that holds api_key
WithAuth(posts, api_key) ==
  [i \in 1..Len(posts) |-> [posts[i] EXCEPT !.auth = api_key]]

\* generate_raycast_config of an updater made with api_key, the server
\* answering a successful fetch with models_data; the catalog's entries
\* are mappings; the fault is at "makedirs" or at "config", the write
generate_raycast_config_of(d, api_key, models_data, script, fault) ==
  Bind(fetch_models(script), LAMBDA f :
  LET w == WriteDirect(_ensure_dir(d, ConfigPath.dir), ConfigPath,
                       yaml_dump(raycast_config(api_key, models_data)),
                       FaultAt(fault, "config"))
      posts == WithAuth(f.posts, api_key)
  IN
  IF f.res.kind # "return" \/ ~f.res.success
  THEN Ends(f.res, posts, d, NoOut)
  ELSE IF FaultAt(fault, "makedirs") = "kill"
  THEN Ends(Killed, posts, d, NoOut)
  ELSE IF FaultAt(fault, "makedirs") = "oserror"
  THEN Ends(Raise("OSError"), posts, d, NoOut)
  ELSE IF w.end = "kill" THEN Ends(Killed, posts, w.fs, NoOut)
  ELSE IF w.end = "oserror"
  THEN Ends(Failure(<<"Failed to write config file: ", "OSError">>),
            posts, w.fs, NoOut)
  ELSE Ends(Success(f.res.status), posts, w.fs, NoOut))

\* the updater of the command line: its key is VeniceKey
generate_raycast_config(d, script, fault) ==
  generate_raycast_config_of(d, VeniceKey, Catalog, script, fault)

\* update_raycast_config going on to the configuration whatever the
\* verification returned
update_raycast_configUnverified(d, script, fault) ==
  Bind(verify_api_key(script), LAMBDA verification_result :
  LET g == generate_raycast_config(
             d, Drop(script, Len(verification_result.posts)), fault)
  IN
  IF verification_result.res.kind # "return"
  THEN Ends(verification_result.res, verification_result.posts, d, NoOut)
  ELSE [g EXCEPT !.posts = verification_result.posts \o @])

\* the verifier holds a key: the updater was made with one
update_raycast_config(d, script, fault) ==
  Bind(verify_api_key(script), LAMBDA verification_result :
  LET g == generate_raycast_config(
             d, Drop(script, Len(verification_result.posts)), fault)
  IN
  IF verification_result.res.kind # "return"
       \/ ~verification_result.res.success
  THEN Ends(verification_result.res, verification_result.posts, d, NoOut)
  ELSE [g EXCEPT !.posts = verification_result.posts \o @])

\* VeniceAIImageGenerator.list_models: fetched is what fetch_models
\* returned, found whether the lists come from the catalog
list_models(script) ==
  LET result == fetch_models(script) IN
  [posts |-> result.posts, fetched |-> result.res,
   found |-> result.res.kind = "return" /\ result.res.success]

(***************************************************************************)
(* GitKrakenCLI: a command runs as a child process.                        *)
(***************************************************************************)
\* the timeout run_command gives subprocess.run, in seconds
CommandTimeout == 30

\* a child process: it ends with an exit code after secs seconds, or it
\* cannot be launched; TimeoutExpired is what subprocess.run raises
Exit(code) == [t |-> "exit", code |-> code, secs |-> 0]

Slow(code) == [t |-> "exit", code |-> code, secs |-> CommandTimeout + 1]

TimeoutExpired == [t |-> "timeout", code |-> 0, secs |-> 0]

LaunchError == [t |-> "oserror", code |-> 0, secs |-> 0]

ProcOutcomes == {Exit(0), Exit(1), Slow(0), LaunchError}

\* subprocess.run(cmd, timeout=timeout): the completed process, or the
\* exception raised
subprocess_run(proc, timeout) ==
  IF proc.t = "exit" /\ proc.secs > timeout THEN TimeoutExpired ELSE proc

\* self.cli_path: None, or the path that was found
CliPaths == {NoneV, Str(<<"g", "k">>)}

is_installed(cli_path) == cli_path.t # "none"

NotInstalled == <<"GitKraken CLI (gk) is not installed or not in PATH">>

\* run_command with 'success': True whatever the return code
run_commandIgnoresReturnCode(cli_path, proc) ==
  IF ~is_installed(cli_path)
  THEN [launched |-> FALSE, res |-> Failure(NotInstalled)]
  ELSE Bind(subprocess_run(proc, CommandTimeout), LAMBDA result :
         [launched |-> TRUE,
          res |-> IF result.t = "timeout"
                  THEN Failure(<<"Command timed out">>)
                  ELSE IF result.t = "oserror" THEN Failure(<<"OSError">>)
                  ELSE Success(result.code)])

\* GitKrakenCLI.run_command; status holds the return code, and a result
\* made from an exit code has no 'error'
run_command(cli_path, proc) ==
  IF ~is_installed(cli_path)
  THEN [launched |-> FALSE, res |-> Failure(NotInstalled)]
  ELSE Bind(subprocess_run(proc, CommandTimeout), LAMBDA result :
         [launched |-> TRUE,
          res |-> IF result.t = "timeout"
                  THEN Failure(<<"Command timed out">>)
                  ELSE IF result.t = "oserror" THEN Failure(<<"OSError">>)
                  ELSE [Success(result.code)
                          EXCEPT !.success = (result.code = 0)]])

(***************************************************************************)
(* QwenCLIIntegrator: every public method hands its work to one of the     *)
(* clients and turns an exception into a failure result.                   *)
(***************************************************************************)
\* no integrator has been made
NoIntegrator ==
  [made |-> FALSE, cli_path |-> NoneV, venice_api_key |-> NoneV,
   venice |-> FALSE]

\* __init__: venice is set when VENICE_API_KEY is truthy
QwenCLIIntegrator(cli_path, key) ==
  [made |-> TRUE, cli_path |-> cli_path, venice_api_key |-> key,
   venice |-> Truthy(key)]

\* os.environ.get("VENICE_API_KEY")
VeniceKeyValues == {NoneV, Str(<<>>), Str(VeniceKey)}

Integrators ==
  { QwenCLIIntegrator(c, k) : c \in CliPaths, k \in VeniceKeyValues }

\* a sample of the keys of method_map, and a command that is not one
method_map == {"version", "work_list"}

Commands == method_map \cup {"status"}

NotInitialized ==
  <<"Venice AI not initialized - please set VENICE_API_KEY environment variable">>

\* except ValueError only: any other exception leaves the method
CaughtValueErrorOnly(res) ==
  IF res.kind = "raise" /\ res.exc = "ValueError"
  THEN Failure(<<res.exc>>) ELSE res

\* except Exception as e: return {'success': False, 'error': str(e)}; the
\* text of an exception is told apart by its type only
Caught(res) ==
  IF res.kind = "raise" THEN Failure(<<res.exc>>) ELSE res

\* what a method leaves behind: inner is how the operation it hands the
\* work to ended
Delegated(e) ==
  Bind(e, LAMBDA end :
    [res |-> Caught(end.res), inner |-> end.res, posts |-> end.posts,
     fs |-> end.fs, out |-> end.out])

\* a method that returns before it calls any client
Refused(d, error) ==
  [res |-> Failure(error), inner |-> NoRes, posts |-> <<>>, fs |-> d,
   out |-> NoOut]

\* kwargs_fit: the keyword arguments match the method's signature
gitkraken_command(self, d, command, kwargs_fit, proc) ==
  IF ~is_installed(self.cli_path) THEN Refused(d, NotInstalled)
  ELSE IF command \notin method_map
  THEN Refused(d, <<"Unknown GitKraken command: ", command>>)
  ELSE Delegated(Ends(IF kwargs_fit
                      THEN run_command(self.cli_path, proc).res
                      ELSE Raise("TypeError"),
                      <<>>, d, NoOut))

venice_generate_image(self, d, now, args, script, body, upbody, fault) ==
  IF ~self.venice THEN Refused(d, NotInitialized)
  ELSE Delegated(generate_image(d, now, args, script, body, upbody, fault))

venice_upscale_image(self, d, image_path, script, body, fault) ==
  IF ~self.venice THEN Refused(d, NotInitialized)
  ELSE Delegated(upscale_image_file(d, image_path, script, body, fault))

\* success is True whatever list_models found; inner is what fetch_models
\* gave list_models
list_available_models(self, d, script) ==
  LET model_data == list_models(script) IN
  IF ~self.venice THEN Refused(d, NotInitialized)
  ELSE [res |-> IF model_data.fetched.kind = "blocked" THEN Blocked
                ELSE Success(0),
        inner |-> model_data.fetched, posts |-> model_data.posts,
        fs |-> d, out |-> NoOut]

\* p is self.providers of the ExternalAPIIntegrator the method makes
external_chat_completion(p, e, d, provider_id, model_id, outcome) ==
  LET c == chat_completion(p, e, provider_id, model_id, outcome) IN
  Delegated(Ends(c.res, c.posts, d, NoOut))

\* get_available_providers and list_all_models read self.providers only
list_external_providers(p, d) ==
  Delegated(Ends(Success(0), <<>>, d, NoOut))

verify_venice_api(self, d, api_key, script) ==
  LET key_to_use == IF Truthy(api_key) THEN api_key
                    ELSE self.venice_api_key
      v == verify_api_key(script)
  IN
  IF ~Truthy(key_to_use)
  THEN Refused(d, <<"No API key provided for verification">>)
  ELSE Delegated(Ends(v.res, v.posts, d, NoOut))

update_venice_config(self, d, script, fault) ==
  IF ~Truthy(self.venice_api_key)
  THEN Refused(d, <<"No API key provided for configuration update">>)
  ELSE Delegated(update_raycast_config(d, script, fault))

(***************************************************************************)
(* The command line of qwen_cli_integrator.py: what "external chat" prints,*)
(* and the redactor of sensitive values.  A JSON document is a scalar, a   *)
(* mapping (a sequence of [k, v] in order) or a list; the name of a key is *)
(* a sequence of characters.                                               *)
(***************************************************************************)
\* deepest nesting of a provider's answer
MaxDepth == 2

Scalar(s) == [t |-> "scalar", v |-> s, items |-> <<>>]

JMap(items) == [t |-> "map", v |-> "", items |-> items]

JSeq(items) == [t |-> "list", v |-> "", items |-> items]

UpperLetters ==
  <<"A", "B", "C", "D", "E", "F", "G", "H", "I", "J", "K", "L", "M", "N",
    "O", "P", "Q", "R", "S", "T", "U", "V", "W", "X", "Y", "Z">>

LowerLetters ==
  <<"a", "b", "c", "d", "e", "f", "g", "h", "i", "j", "k", "l", "m", "n",
    "o", "p", "q", "r", "s", "t", "u", "v", "w", "x", "y", "z">>

\* str.lower, one character
Lower(c) ==
  IF \E i \in 1..Len(UpperLetters) : UpperLetters[i] = c
  THEN LowerLetters[CHOOSE i \in 1..Len(UpperLetters) : UpperLetters[i] = c]
  ELSE c

\* a key, lowercased, with hyphens and underscores stripped
normalize(key) ==
  SelectSeq([i \in 1..Len(key) |-> Lower(key[i])],
            LAMBDA c : c \notin {"-", "_"})

\* the known-sensitive names
SensitiveNames ==
  { <<"a", "p", "i", "_", "k", "e", "y">>,
    <<"a", "p", "i", "_", "k", "e", "y", "s">>,
    <<"p", "a", "s", "s", "w", "o", "r", "d">>,
    <<"s", "e", "c", "r", "e", "t">>,
    <<"t", "o", "k", "e", "n">>,
    <<"a", "c", "c", "e", "s", "s", "_", "t", "o", "k", "e", "n">>,
    <<"a", "u", "t", "h", "o", "r", "i", "z", "a", "t", "i", "o", "n">>,
    <<"b", "e", "a", "r", "e", "r">>,
    <<"c", "l", "i", "e", "n", "t", "_", "s", "e", "c", "r", "e", "t">>,
    <<"p", "r", "i", "v", "a", "t", "e", "_", "k", "e", "y">>,
    <<"r", "e", "f", "r", "e", "s", "h", "_", "t", "o", "k", "e", "n">> }

SensitiveKeys == { normalize(n) : n \in SensitiveNames }

RedactionMarker == Scalar("***REDACTED***")

\* redact: the value of a sensitive key becomes the marker, whatever it is;
\* any other value is redacted in turn; a scalar is left as it is
RECURSIVE redact(_)
redact(value) ==
  IF value.t = "map"
  THEN JMap([i \in 1..Len(value.items) |->
               IF normalize(value.items[i].k) \in SensitiveKeys
               THEN [k |-> value.items[i].k, v |-> RedactionMarker]
               ELSE [k |-> value.items[i].k,
                     v |-> redact(value.items[i].v)]])
  ELSE IF value.t = "list"
  THEN JSeq([i \in 1..Len(value.items) |-> redact(value.items[i])])
  ELSE value

\* the keys a provider's answer may use
AnswerKeys ==
  { <<"a", "p", "i", "_", "k", "e", "y">>,
    <<"A", "P", "I", "-", "K", "e", "y">>,
    <<"T", "o", "k", "e", "n">>,
    <<"n", "a", "m", "e">> }

\* the answers of a provider, nested up to depth n
RECURSIVE JsonValues(_)
JsonValues(n) ==
  IF n = 0 THEN { Scalar("x"), RedactionMarker }
  ELSE LET inner == JsonValues(n - 1) IN
       { Scalar("x"), RedactionMarker, JMap(<<>>), JSeq(<<>>) }
       \cup { JMap(<<[k |-> key, v |-> x]>>) :
                key \in AnswerKeys, x \in inner }
       \cup { JSeq(<<x>>) : x \in inner }

\* nothing was printed
NoDocument == Scalar("")

Entry(key, value) == [k |-> key, v |-> value]

\* a result mapping as json.dumps writes it: a success with the provider's
\* answer, or a failure with its error text
ResultDocument(res, payload) ==
  IF res.kind # "return" THEN NoDocument
  ELSE IF res.success
  THEN JMap(<<Entry(<<"s", "u", "c", "c", "e", "s", "s">>, Scalar("true")),
              Entry(<<"r", "e", "s", "p", "o", "n", "s", "e">>, payload)>>)
  ELSE JMap(<<Entry(<<"s", "u", "c", "c", "e", "s", "s">>, Scalar("false")),
              Entry(<<"e", "r", "r", "o", "r">>, Scalar("<error>"))>>)

\* what a run of the command line leaves: its exit code, what it printed,
\* and the call it made
Ran(code, printed, call) ==
  [code |-> code, printed |-> printed, res |-> call.res,
   inner |-> call.inner, posts |-> call.posts, fs |-> call.fs,
   out |-> call.out]

\* main, "external chat": source tells where the message comes from;
\* payload is the JSON of a 200 answer
main_external_chat(p, e, d, source, provider, model, outcome, payload) ==
  IF source = "none"
  THEN Bind(Refused(d, <<"Either --message or --file must be provided">>),
            LAMBDA call : Ran(1, ResultDocument(call.res, payload), call))
  ELSE IF source = "unreadable"
  THEN Bind(Refused(d, <<"Error reading file: ", "OSError">>),
            LAMBDA call : Ran(1, ResultDocument(call.res, payload), call))
  ELSE Bind(external_chat_completion(p, e, d, provider, model, outcome),
            LAMBDA call : Ran(0, ResultDocument(call.res, payload), call))

(***************************************************************************)
(* venice_integration.main: the flags of one run, the actions it takes in  *)
(* order, and its exit code.                                               *)
(***************************************************************************)
\* the parsed command line; api_key tells whether --api-key or the
\* environment gives a key
Argv(verify, update_config, list_models_flag, api_key) ==
  [verify |-> verify, update_config |-> update_config,
   list_models |-> list_models_flag, api_key |-> api_key]

NoArgv == Argv(FALSE, FALSE, FALSE, FALSE)

\* what a run leaves: its exit code, the actions it took, the result of the
\* last one, the requests sent and the disk
Exited(code, calls, res, posts, disk) ==
  [code |-> code, calls |-> calls, res |-> res, posts |-> posts, fs |-> disk]

\* the code a run ends with after its last action: an exception is caught
\* and reported, a blocked or killed run has no exit code
ExitAfter(res, code) == IF res.kind = "raise" THEN 1 ELSE code

\* lines 958-961: the --verify block, an "if" of its own
MainVerify(args, script) ==
  IF args.verify
  THEN Bind(verify_api_key(script), LAMBDA result :
         [calls |-> <<"verify">>, res |-> result.res, posts |-> result.posts])
  ELSE [calls |-> <<>>, res |-> NoRes, posts |-> <<>>]

\* lines 963-975: --update-config, else --list-models, else the help text
\* and exit code 1
MainAction(d, args, script, fault, v) ==
  IF args.update_config
  THEN Bind(update_raycast_config(d, Drop(script, Len(v.posts)), fault),
         LAMBDA result :
           Exited(ExitAfter(result.res, 0), Append(v.calls, "update_config"),
                  result.res, v.posts \o result.posts, result.fs))
  ELSE IF args.list_models
  THEN Bind(fetch_models(Drop(script, Len(v.posts))), LAMBDA result :
         Exited(0, Append(v.calls, "list_models"), result.res,
                v.posts \o result.posts, d))
  ELSE Exited(1, Append(v.calls, "help"), v.res, v.posts, d)

\* main, lines 940-981
venice_main(d, args, script, fault) ==
  IF ~args.api_key THEN Exited(1, <<>>, NoRes, <<>>, d)
  ELSE Bind(MainVerify(args, script), LAMBDA v :
         IF v.res.kind = "blocked" THEN Exited(0, v.calls, v.res, v.posts, d)
         ELSE MainAction(d, args, script, fault, v))
(***************************************************************************)
(* The state machine.                                                      *)
(*   providers  self.providers of the ExternalAPIIntegrator                *)
(*   env        os.environ                                                 *)
(*   pc         "idle": no call in progress; "done": a call has ended and  *)
(*              its caller holds the outcome recorded in last              *)
(*   last       the last call: its arguments, what it returned or raised,  *)
(*              and the requests it put on the wire, in order              *)
(*   fs         the files on disk: path -> content                         *)
(*   clock      the wall clock, in ticks; time.gmtime() reads its seconds  *)
(*   integrator the QwenCLIIntegrator of the command line, once made       *)
(***************************************************************************)
NoFile == File("none", <<>>)

\* an empty disk
NoFiles == [p \in {} |-> p]

NoLast ==
  [op |-> "none", pid |-> "", mid |-> "", flag |-> FALSE, script |-> <<>>,
   file |-> NoFile, before |-> <<>>, ret |-> FALSE, key |-> NoneV,
   res |-> NoRes, posts |-> <<>>,
   args |-> NoArgs, body |-> BinaryBody, up |-> BinaryBody,
   fault |-> NoFault, out |-> NoOut, disk |-> NoFiles, now |-> 0,
   path |-> NoPath, val |-> Returned(<<>>), inner |-> NoRes,
   self |-> NoIntegrator, cmd |-> "", fit |-> TRUE, proc |-> Exit(0),
   api_key |-> NoneV, source |-> "", payload |-> NoDocument, code |-> 0,
   printed |-> NoDocument, argv |-> NoArgv, calls |-> <<>>,
   launched |-> FALSE, call |-> DefaultCall, data |-> <<>>,
   catalog |-> <<>>]

\* the provider records of the dispatcher's state machine: one provider
\* "p1" with every combination of base_url, api_keys and models
ChatFiles ==
  { File("ok", <<Provider("p1", url, keys, models)>>) :
      url \in {Absent, "https://u1"}, keys \in ApiKeysValues,
      models \in ModelsValues }

\* server scripts: every outcome but the last one is one the session retries
Retried == { Answer(503, TRUE), ConnError, Hang }

Scripts ==
  {<<>>} \cup
  { r \o <<o>> : r \in SeqsUpTo(Retried, MaxServer - 1), o \in Outcomes }

\* ExternalAPIIntegrator.__init__ with a configuration path: lines 48-51
Construct(file) ==
  /\ pc = "idle"
  /\ \E r \in { load_providers_from_config(<<>>, file) } :
       /\ providers' = r.providers
       /\ last' = [NoLast EXCEPT !.op = "init", !.file = file, !.ret = r.ret]
  /\ pc' = "done"
  /\ UNCHANGED <<env, fs, clock, integrator>>

\* a later call of load_providers_from_config on the same object
Load(file) ==
  /\ pc = "idle"
  /\ \E r \in { load_providers_from_config(providers, file) } :
       /\ providers' = r.providers
       /\ last' = [NoLast EXCEPT !.op = "load", !.file = file,
                                 !.before = providers, !.ret = r.ret]
  /\ pc' = "done"
  /\ UNCHANGED <<env, fs, clock, integrator>>

GetDefaultProviderApiKey(provider_id) ==
  /\ pc = "idle"
  /\ \E r \in { get_default_provider_api_key(providers, provider_id) } :
       last' = [NoLast EXCEPT !.op = "get_default_provider_api_key",
                              !.pid = provider_id, !.key = r.val,
                              !.res = IF r.raised THEN Raise("AttributeError")
                                      ELSE Success(0)]
  /\ pc' = "done"
  /\ UNCHANGED <<providers, env, fs, clock, integrator>>

ChatCompletion(provider_id, model_id, script) ==
  /\ pc = "idle"
  /\ \E r \in { chat_completion(providers, env, provider_id, model_id,
                              OutcomeAt(script, 1)) } :
       last' = [NoLast EXCEPT !.op = "chat_completion", !.pid = provider_id,
                              !.mid = model_id, !.script = script,
                              !.res = r.res, !.posts = r.posts]
  /\ pc' = "done"
  /\ UNCHANGED <<providers, env, fs, clock, integrator>>

\* chat_completion with the caller's temperature, max_tokens and extra
\* keyword arguments
ChatCompletionWith(provider_id, model_id, call, script) ==
  /\ pc = "idle"
  /\ \E r \in { chat_completion_with(providers, env, provider_id, model_id,
                                     call, OutcomeAt(script, 1)) } :
       last' = [NoLast EXCEPT !.op = "chat_completion", !.pid = provider_id,
                              !.mid = model_id, !.script = script,
                              !.call = call, !.res = r.res,
                              !.posts = r.posts, !.data = r.data]
  /\ pc' = "done"
  /\ UNCHANGED <<providers, env, fs, clock, integrator>>
VerifyApiKey(script) ==
  /\ pc = "idle"
  /\ \E r \in { verify_api_key(script) } :
       last' = [NoLast EXCEPT !.op = "verify_api_key", !.script = script,
                              !.res = r.res, !.posts = r.posts]
  /\ pc' = "done"
  /\ UNCHANGED <<providers, env, fs, clock, integrator>>

FetchModels(script) ==
  /\ pc = "idle"
  /\ \E r \in { fetch_models(script) } :
       last' = [NoLast EXCEPT !.op = "fetch_models", !.script = script,
                              !.res = r.res, !.posts = r.posts]
  /\ pc' = "done"
  /\ UNCHANGED <<providers, env, fs, clock, integrator>>

UpscaleImage(script, body) ==
  /\ pc = "idle"
  /\ \E r \in { upscale_image_bytes(script, body) } :
       last' = [NoLast EXCEPT !.op = "upscale_image_bytes",
                              !.script = script, !.body = body,
                              !.res = r.res, !.posts = r.posts,
                              !.out = [NoOut EXCEPT !.bytes = r.bytes]]
  /\ pc' = "done"
  /\ UNCHANGED <<providers, env, fs, clock, integrator>>

GenerateImage(args, script, body, upbody, fault) ==
  /\ pc = "idle"
  /\ Cardinality(Files(fs)) <= MaxFiles
  /\ \E r \in { generate_image(fs, clock, args, script, body, upbody, fault) } :
       /\ last' = [NoLast EXCEPT !.op = "generate_image", !.args = args,
                                 !.flag = args.auto_upscale,
                                 !.script = script, !.body = body,
                                 !.up = upbody, !.fault = fault,
                                 !.disk = fs, !.now = clock,
                                 !.res = r.res, !.posts = r.posts,
                                 !.out = r.out]
       /\ fs' = r.fs
  /\ pc' = "done"
  /\ UNCHANGED <<providers, env, clock, integrator>>

UpscaleImageFile(image_path, script, body, fault) ==
  /\ pc = "idle"
  /\ Cardinality(Files(fs)) <= MaxFiles
  /\ \E r \in { upscale_image_file(fs, image_path, script, body, fault) } :
       /\ last' = [NoLast EXCEPT !.op = "upscale_image_file",
                                 !.path = image_path,
                                 !.script = script, !.body = body,
                                 !.fault = fault, !.disk = fs, !.now = clock,
                                 !.res = r.res, !.posts = r.posts,
                                 !.out = r.out]
       /\ fs' = r.fs
  /\ pc' = "done"
  /\ UNCHANGED <<providers, env, clock, integrator>>

\* time passes between two calls
Tick ==
  /\ pc = "idle"
  /\ clock < MaxClock
  /\ clock' = clock + 1
  /\ UNCHANGED <<providers, env, pc, last, fs, integrator>>

\* _effective_dims, applied to arguments
EffectiveDims(aspect, width, height) ==
  /\ pc = "idle"
  /\ last' = [NoLast EXCEPT !.op = "_effective_dims",
                            !.args = Args(aspect, width, height, NoneV, FALSE),
                            !.val = _effective_dims(aspect, width, height)]
  /\ pc' = "done"
  /\ UNCHANGED <<providers, env, fs, clock, integrator>>

\* the decoding of generate_image, applied to a response body
DecodeGeneration(body) ==
  /\ pc = "idle"
  /\ last' = [NoLast EXCEPT !.op = "decode_generated", !.body = body,
                            !.val = DecodeGenerated(body)]
  /\ pc' = "done"
  /\ UNCHANGED <<providers, env, fs, clock, integrator>>

\* the decoding of upscale_image_bytes, applied to a response body
DecodeUpscale(body) ==
  /\ pc = "idle"
  /\ last' = [NoLast EXCEPT !.op = "decode_upscaled", !.body = body,
                            !.val = DecodeUpscaled(body)]
  /\ pc' = "done"
  /\ UNCHANGED <<providers, env, fs, clock, integrator>>

\* the public methods of the integrator, called from the command line
GitkrakenCommand(command, kwargs_fit, proc) ==
  /\ pc = "idle"
  /\ integrator.made
  /\ Cardinality(Files(fs)) <= MaxFiles
  /\ \E r \in { gitkraken_command(integrator, fs, command, kwargs_fit, proc) } :
       /\ last' = [NoLast EXCEPT !.op = "gitkraken_command",
                                 !.self = integrator,
                                 !.cmd = command,
                                 !.fit = kwargs_fit,
                                 !.proc = proc,
                                 !.disk = fs, !.now = clock,
                                 !.res = r.res, !.inner = r.inner,
                                 !.posts = r.posts, !.out = r.out]
       /\ fs' = r.fs
  /\ pc' = "done"
  /\ UNCHANGED <<providers, env, clock, integrator>>

\* GitKrakenCLI.run_command on the integrator's client, self.gitkraken
RunCommand(proc) ==
  /\ pc = "idle"
  /\ integrator.made
  /\ \E r \in { run_command(integrator.cli_path, proc) } :
       last' = [NoLast EXCEPT !.op = "run_command", !.self = integrator,
                              !.proc = proc, !.disk = fs, !.now = clock,
                              !.res = r.res, !.launched = r.launched]
  /\ pc' = "done"
  /\ UNCHANGED <<providers, env, fs, clock, integrator>>
VeniceGenerateImage(args, script, body, upbody, fault) ==
  /\ pc = "idle"
  /\ integrator.made
  /\ Cardinality(Files(fs)) <= MaxFiles
  /\ \E r \in { venice_generate_image(integrator, fs, clock, args, script, body,
                                    upbody, fault) } :
       /\ last' = [NoLast EXCEPT !.op = "venice_generate_image",
                                 !.self = integrator,
                                 !.args = args,
                                 !.flag = args.auto_upscale,
                                 !.script = script,
                                 !.body = body,
                                 !.up = upbody,
                                 !.fault = fault,
                                 !.disk = fs, !.now = clock,
                                 !.res = r.res, !.inner = r.inner,
                                 !.posts = r.posts, !.out = r.out]
       /\ fs' = r.fs
  /\ pc' = "done"
  /\ UNCHANGED <<providers, env, clock, integrator>>

VeniceUpscaleImage(image_path, script, body, fault) ==
  /\ pc = "idle"
  /\ integrator.made
  /\ Cardinality(Files(fs)) <= MaxFiles
  /\ \E r \in { venice_upscale_image(integrator, fs, image_path, script, body,
                                   fault) } :
       /\ last' = [NoLast EXCEPT !.op = "venice_upscale_image",
                                 !.self = integrator,
                                 !.path = image_path,
                                 !.script = script,
                                 !.body = body,
                                 !.fault = fault,
                                 !.disk = fs, !.now = clock,
                                 !.res = r.res, !.inner = r.inner,
                                 !.posts = r.posts, !.out = r.out]
       /\ fs' = r.fs
  /\ pc' = "done"
  /\ UNCHANGED <<providers, env, clock, integrator>>

ListAvailableModels(script) ==
  /\ pc = "idle"
  /\ integrator.made
  /\ Cardinality(Files(fs)) <= MaxFiles
  /\ \E r \in { list_available_models(integrator, fs, script) } :
       /\ last' = [NoLast EXCEPT !.op = "list_available_models",
                                 !.self = integrator,
                                 !.script = script,
                                 !.disk = fs, !.now = clock,
                                 !.res = r.res, !.inner = r.inner,
                                 !.posts = r.posts, !.out = r.out]
       /\ fs' = r.fs
  /\ pc' = "done"
  /\ UNCHANGED <<providers, env, clock, integrator>>

ExternalChatCompletion(provider_id, model_id, script) ==
  /\ pc = "idle"
  /\ integrator.made
  /\ Cardinality(Files(fs)) <= MaxFiles
  /\ \E r \in { external_chat_completion(providers, env, fs, provider_id,
                                       model_id, OutcomeAt(script, 1)) } :
       /\ last' = [NoLast EXCEPT !.op = "external_chat_completion",
                                 !.self = integrator,
                                 !.pid = provider_id,
                                 !.mid = model_id,
                                 !.script = script,
                                 !.disk = fs, !.now = clock,
                                 !.res = r.res, !.inner = r.inner,
                                 !.posts = r.posts, !.out = r.out]
       /\ fs' = r.fs
  /\ pc' = "done"
  /\ UNCHANGED <<providers, env, clock, integrator>>

ListExternalProviders ==
  /\ pc = "idle"
  /\ integrator.made
  /\ Cardinality(Files(fs)) <= MaxFiles
  /\ \E r \in { list_external_providers(providers, fs) } :
       /\ last' = [NoLast EXCEPT !.op = "list_external_providers",
                                 !.self = integrator,
                                 !.disk = fs, !.now = clock,
                                 !.res = r.res, !.inner = r.inner,
                                 !.posts = r.posts, !.out = r.out]
       /\ fs' = r.fs
  /\ pc' = "done"
  /\ UNCHANGED <<providers, env, clock, integrator>>

VerifyVeniceApi(api_key, script) ==
  /\ pc = "idle"
  /\ integrator.made
  /\ Cardinality(Files(fs)) <= MaxFiles
  /\ \E r \in { verify_venice_api(integrator, fs, api_key, script) } :
       /\ last' = [NoLast EXCEPT !.op = "verify_venice_api",
                                 !.self = integrator,
                                 !.api_key = api_key,
                                 !.script = script,
                                 !.disk = fs, !.now = clock,
                                 !.res = r.res, !.inner = r.inner,
                                 !.posts = r.posts, !.out = r.out]
       /\ fs' = r.fs
  /\ pc' = "done"
  /\ UNCHANGED <<providers, env, clock, integrator>>

UpdateVeniceConfig(script, fault) ==
  /\ pc = "idle"
  /\ integrator.made
  /\ Cardinality(Files(fs)) <= MaxFiles
  /\ \E r \in { update_venice_config(integrator, fs, script, fault) } :
       /\ last' = [NoLast EXCEPT !.op = "update_venice_config",
                                 !.self = integrator,
                                 !.script = script,
                                 !.fault = fault,
                                 !.disk = fs, !.now = clock,
                                 !.res = r.res, !.inner = r.inner,
                                 !.posts = r.posts, !.out = r.out]
       /\ fs' = r.fs
  /\ pc' = "done"
  /\ UNCHANGED <<providers, env, clock, integrator>>

\* the command line, "external chat": lines 576-611 of main
MainExternalChat(source, provider_id, model_id, script, payload) ==
  /\ pc = "idle"
  /\ integrator.made
  /\ \E r \in { main_external_chat(providers, env, fs, source, provider_id,
                                   model_id, OutcomeAt(script, 1),
                                   payload) } :
       /\ last' = [NoLast EXCEPT !.op = "main_external_chat",
                                 !.self = integrator, !.source = source,
                                 !.pid = provider_id, !.mid = model_id,
                                 !.script = script, !.payload = payload,
                                 !.disk = fs, !.now = clock,
                                 !.res = r.res, !.inner = r.inner,
                                 !.posts = r.posts, !.out = r.out,
                                 !.code = r.code, !.printed = r.printed]
       /\ fs' = r.fs
  /\ pc' = "done"
  /\ UNCHANGED <<providers, env, clock, integrator>>

\* one run of venice_integration.main
VeniceMain(args, script, fault) ==
  /\ pc = "idle"
  /\ Cardinality(Files(fs)) <= MaxFiles
  /\ \E r \in { venice_main(fs, args, script, fault) } :
       /\ last' = [NoLast EXCEPT !.op = "venice_main", !.argv = args,
                                 !.script = script, !.fault = fault,
                                 !.disk = fs, !.now = clock,
                                 !.res = r.res, !.posts = r.posts,
                                 !.code = r.code, !.calls = r.calls]
       /\ fs' = r.fs
  /\ pc' = "done"
  /\ UNCHANGED <<providers, env, clock, integrator>>
\* VeniceAIConfigUpdater(api_key).update_raycast_config()
UpdateRaycastConfig(script, fault) ==
  /\ pc = "idle"
  /\ Cardinality(Files(fs)) <= MaxFiles
  /\ \E r \in { update_raycast_config(fs, script, fault) } :
       /\ last' = [NoLast EXCEPT !.op = "update_raycast_config",
                                 !.script = script, !.fault = fault,
                                 !.disk = fs, !.now = clock,
                                 !.res = r.res, !.posts = r.posts]
       /\ fs' = r.fs
  /\ pc' = "done"
  /\ UNCHANGED <<providers, env, clock, integrator>>
\* VeniceAIConfigUpdater(api_key).generate_raycast_config(), the server
\* holding the catalog models_data
GenerateRaycastConfig(api_key, models_data, script, fault) ==
  /\ pc = "idle"
  /\ \E r \in { generate_raycast_config_of(fs, api_key, models_data, script,
                                           fault) } :
       /\ last' = [NoLast EXCEPT !.op = "generate_raycast_config",
                                 !.api_key = Str(api_key),
                                 !.catalog = models_data,
                                 !.script = script, !.fault = fault,
                                 !.disk = fs, !.now = clock,
                                 !.res = r.res, !.posts = r.posts]
       /\ fs' = r.fs
  /\ pc' = "done"
  /\ UNCHANGED <<providers, env, clock, integrator>>

\* ExternalAPIIntegrator(config_path) on the providers file of the disk
ConstructFromDisk ==
  /\ ConfigPath \in DOMAIN fs
  /\ fs[ConfigPath].complete
  /\ Construct(safe_load(fs[ConfigPath].data))
\* the caller has taken the outcome; a call that blocks or a process that
\* was killed never gets here
Return ==
  /\ pc = "done"
  /\ last.res.kind \notin {"blocked", "killed"}
  /\ pc' = "idle"
  /\ last' = NoLast
  /\ UNCHANGED <<providers, env, fs, clock, integrator>>

(***************************************************************************)
(* The dispatcher: an integrator constructed from a one-provider file,     *)
(* then any sequence of key lookups and chat completions.                  *)
(***************************************************************************)
Init ==
  /\ \E file \in ChatFiles :
       providers = load_providers_from_config(<<>>, file).providers
  /\ env \in Envs
  /\ pc = "idle"
  /\ last = NoLast
  /\ fs = NoFiles
  /\ clock = 0
  /\ integrator = NoIntegrator

Next ==
  \/ \E p \in ProviderIds : GetDefaultProviderApiKey(p)
  \/ \E p \in ProviderIds, m \in RequestedModelIds, o \in Outcomes :
       ChatCompletion(p, m, <<o>>)
  \/ Return

Spec == Init /\ [][Next]_vars

(***************************************************************************)
(* The loader: an integrator constructed without a configuration, then     *)
(* any sequence of constructions and loads from files.                     *)
(***************************************************************************)
InitLoad ==
  /\ providers = <<>>
  /\ env = [n \in {EnvName} |-> [set |-> FALSE, v |-> <<>>]]
  /\ pc = "idle"
  /\ last = NoLast
  /\ fs = NoFiles
  /\ clock = 0
  /\ integrator = NoIntegrator

NextLoad ==
  \/ \E f \in LoadFiles : Construct(f)
  \/ \E f \in LoadFiles : Load(f)
  \/ Return

SpecLoad == InitLoad /\ [][NextLoad]_vars

(***************************************************************************)
(* The network: a well-formed provider, and every operation that makes an  *)
(* outward call, against a scripted server.                                *)
(***************************************************************************)
GoodFile ==
  File("ok", <<Provider("p1", "https://u1",
                        [t |-> "map", items |->
                           <<[k |-> "openai", v |-> Str(<<"s", "k">>)]>>],
                        [t |-> "list", items |-> <<[id |-> "m1"]>>])>>)

InitNet ==
  /\ providers = load_providers_from_config(<<>>, GoodFile).providers
  /\ env = [n \in {EnvName} |-> [set |-> FALSE, v |-> <<>>]]
  /\ pc = "idle"
  /\ last = NoLast
  /\ fs = NoFiles
  /\ clock = 0
  /\ integrator = NoIntegrator

NextNet ==
  \/ \E s \in Scripts : ChatCompletion("p1", "m1", s)
  \/ \E s \in Scripts : VerifyApiKey(s)
  \/ \E s \in Scripts : FetchModels(s)
  \/ \E s \in Scripts : UpscaleImage(s, BinaryBody)
  \/ Return

SpecNet == InitNet /\ [][NextNet]_vars

(***************************************************************************)
(* The dimensions: _effective_dims on every aspect name, width and height. *)
(***************************************************************************)
\* largest width or height, in pixels
MaxDim == 4

AspectValues == {"square", "tall", "wide", "cinema"}

DimValues == {NoInt} \cup { IntV(n) : n \in 0..MaxDim }

NextDims ==
  \/ \E a \in AspectValues, w \in DimValues, h \in DimValues :
       EffectiveDims(a, w, h)
  \/ Return

SpecDims == InitLoad /\ [][NextDims]_vars

(***************************************************************************)
(* The decoders: both of them on every response body.                      *)
(***************************************************************************)
NextDecode ==
  \/ \E b \in Bodies : DecodeGeneration(b)
  \/ \E b \in Bodies : DecodeUpscale(b)
  \/ Return

SpecDecode == InitLoad /\ [][NextDecode]_vars

(***************************************************************************)
(* The image generator: one process that generates and upscales images     *)
(* into one output directory while the clock advances, against a scripted  *)
(* server and a disk on which a write can fail.                            *)
(***************************************************************************)
ImageArgs ==
  { Args(d[1], d[2], d[3], NoneV, u) :
      d \in { <<"tall", NoInt, NoInt>>, <<"cinema", NoInt, NoInt>>,
               <<"tall", IntV(MaxDim), IntV(MaxDim - 1)>> },
      u \in BOOLEAN }

SixTimes503 == [k \in 1..(RetryTotal + 1) |-> Answer(503, TRUE)]

ImageScripts ==
  { <<>>, <<Answer(400, TRUE)>>, <<Answer(200, FALSE)>>, SixTimes503,
    <<Answer(200, TRUE), Answer(400, TRUE)>>,
    <<Answer(200, TRUE)>> \o SixTimes503 }

ImageBodies ==
  { BinaryBody, JsonBody(JStr("QQ=="), JAbsent), JsonBody(JAbsent, JAbsent) }

UpscaleBodies == { BinaryBody, JsonBody(JAbsent, JAbsent) }

Hows == {"oserror", "kill"}

GenerateFaults ==
  {NoFault} \cup
  { Fault(at, how) : at \in {"img", "up"}, how \in Hows }

FileFaults == {NoFault} \cup { Fault("out", how) : how \in Hows }

\* the images a user may ask to upscale: those generate_image may have made
SourcePaths == { img_path(Stem(NoneV, t)) : t \in 0..MaxClock }

NextImage ==
  \/ \E a \in ImageArgs, s \in ImageScripts, b \in ImageBodies,
        u \in UpscaleBodies, f \in GenerateFaults :
       GenerateImage(a, s, b, u, f)
  \/ \E p \in SourcePaths, s \in ImageScripts, b \in UpscaleBodies,
        f \in FileFaults :
       UpscaleImageFile(p, s, b, f)
  \/ Tick
  \/ Return

SpecImage == InitLoad /\ [][NextImage]_vars

(***************************************************************************)
(* The command line's integrator: made from the environment and from a     *)
(* providers file, then any sequence of its public methods, against a      *)
(* scripted server, a scripted child process and a disk that may fail.     *)
(***************************************************************************)
\* a providers file whose api_keys is a list, not a mapping
ListKeysFile ==
  File("ok", <<Provider("p1", "https://u1",
                        [t |-> "list", items |-> <<>>],
                        [t |-> "list", items |-> <<[id |-> "m1"]>>])>>)

SixTimesRefused == [k \in 1..(RetryTotal + 1) |-> ConnError]

IntegratorScripts ==
  { <<>>, <<Answer(400, TRUE)>>, <<Answer(401, TRUE)>>,
    <<Answer(200, FALSE)>>, SixTimesRefused,
    <<Answer(200, TRUE), Answer(400, TRUE)>> }

ConfigFaults ==
  {NoFault} \cup { Fault(at, how) : at \in {"makedirs", "config"},
                                    how \in Hows }

InitIntegrator ==
  /\ \E file \in {GoodFile, ListKeysFile} :
       providers = load_providers_from_config(<<>>, file).providers
  /\ env = [n \in {EnvName} |-> [set |-> FALSE, v |-> <<>>]]
  /\ pc = "idle"
  /\ last = NoLast
  /\ fs = NoFiles
  /\ clock = 0
  /\ integrator \in Integrators

NextIntegrator ==
  \/ \E c \in Commands, k \in BOOLEAN, p \in ProcOutcomes :
       GitkrakenCommand(c, k, p)
  \/ \E p \in ProcOutcomes : RunCommand(p)
  \/ \E a \in ImageArgs, s \in IntegratorScripts, b \in ImageBodies,
        f \in GenerateFaults :
       VeniceGenerateImage(a, s, b, BinaryBody, f)
  \/ \E p \in SourcePaths, s \in IntegratorScripts, f \in FileFaults :
       VeniceUpscaleImage(p, s, BinaryBody, f)
  \/ \E s \in IntegratorScripts : ListAvailableModels(s)
  \/ \E m \in RequestedModelIds, s \in IntegratorScripts :
       ExternalChatCompletion("p1", m, s)
  \/ ListExternalProviders
  \/ \E k \in {NoneV, Str(VeniceKey)}, s \in IntegratorScripts :
       VerifyVeniceApi(k, s)
  \/ \E s \in IntegratorScripts, f \in ConfigFaults : UpdateVeniceConfig(s, f)
  \/ Return

SpecIntegrator == InitIntegrator /\ [][NextIntegrator]_vars

(***************************************************************************)
(* The command line: one integrator, a well-formed provider, and any       *)
(* sequence of "external chat" runs against a provider that answers with   *)
(* any JSON document.                                                      *)
(***************************************************************************)
InitMain ==
  /\ providers = load_providers_from_config(<<>>, GoodFile).providers
  /\ env = [n \in {EnvName} |-> [set |-> FALSE, v |-> <<>>]]
  /\ pc = "idle"
  /\ last = NoLast
  /\ fs = NoFiles
  /\ clock = 0
  /\ integrator = QwenCLIIntegrator(Str(<<"g", "k">>), Str(VeniceKey))

MessageSources == {"message", "file", "unreadable", "none"}

NextMain ==
  \/ \E src \in MessageSources, m \in RequestedModelIds,
        o \in {Answer(200, TRUE), Answer(401, TRUE), ConnError},
        x \in JsonValues(MaxDepth) :
       MainExternalChat(src, "p1", m, <<o>>, x)
  \/ Return

SpecMain == InitMain /\ [][NextMain]_vars

(***************************************************************************)
(* venice_integration on the command line: any sequence of runs with any   *)
(* flags, against a scripted server and a disk that may fail.              *)
(***************************************************************************)
Argvs ==
  { Argv(v, u, l, k) : v \in BOOLEAN, u \in BOOLEAN, l \in BOOLEAN,
                       k \in BOOLEAN }

NextVeniceMain ==
  \/ \E a \in Argvs, s \in IntegratorScripts, f \in ConfigFaults :
       VeniceMain(a, s, f)
  \/ \E s \in IntegratorScripts, f \in ConfigFaults :
       UpdateRaycastConfig(s, f)
  \/ Return

SpecVeniceMain == InitLoad /\ [][NextVeniceMain]_vars
(***************************************************************************)
(* The dispatcher's request body: a well-formed provider with the model    *)
(* "m1", and chat completions with any temperature, max_tokens and extra   *)
(* keyword arguments.                                                      *)
(***************************************************************************)
\* 'model' is no parameter of chat_completion (model_id is), 'top_p' and
\* 'stop' are usual sampling parameters
KwargNames == {"model", "top_p", "stop"}

KwargValues == {NoVal, SVal("m3"), NVal(1)}

\* dicts of at most two keyword arguments
KwargsValues ==
  {<<>>}
    \cup { <<[k |-> a, v |-> x]>> : a \in KwargNames, x \in KwargValues }
    \cup { <<[k |-> a, v |-> x], [k |-> b, v |-> y]>> :
             a \in {"model"}, b \in {"top_p"},
             x \in KwargValues, y \in KwargValues }

CallsValues ==
  { CallArgs(Messages, t, m, kw) :
      t \in {NVal(7), NVal(0)}, m \in {NoVal, NVal(0), NVal(5)},
      kw \in KwargsValues }

NextBody ==
  \/ \E m \in RequestedModelIds, c \in CallsValues,
        o \in {Answer(200, TRUE), ConnError} :
       ChatCompletionWith("p1", m, c, <<o>>)
  \/ Return

SpecBody == InitNet /\ [][NextBody]_vars
(***************************************************************************)
(* The generated configuration: updaters with either of two keys write     *)
(* the providers file from any catalog, an ExternalAPIIntegrator is made   *)
(* from the file on disk, and chats go to the provider it declares.        *)
(***************************************************************************)
UpdaterKeys == {VeniceKey, <<"o", "k">>}

\* a catalog lists a model once
Catalogs ==
  { c \in SeqsUpTo({ [id |-> m] : m \in ModelIds }, MaxModels) :
      Injective(c) }

InitConfig ==
  /\ providers = <<>>
  /\ env \in Envs
  /\ pc = "idle"
  /\ last = NoLast
  /\ fs = NoFiles
  /\ clock = 0
  /\ integrator = NoIntegrator

NextConfig ==
  \/ \E k \in UpdaterKeys, c \in Catalogs,
        s \in {<<>>, <<Answer(401, TRUE)>>}, f \in ConfigFaults :
       GenerateRaycastConfig(k, c, s, f)
  \/ ConstructFromDisk
  \/ \E m \in ModelIds, o \in {Answer(200, TRUE), ConnError} :
       ChatCompletion("venice", m, <<o>>)
  \/ Return

SpecConfig == InitConfig /\ [][NextConfig]_vars
TypeOK ==
  /\ pc \in {"idle", "done"}
  /\ last.res.kind \in {"none", "return", "raise", "blocked", "killed"}

(***************************************************************************)
(* Vocabulary of the properties.                                           *)
(***************************************************************************)
ChatDone == pc = "done" /\ last.op = "chat_completion"

\* the record of the provider the last call named
Called == get_provider_info(providers, last.pid)

KnownProvider == HasKey(providers, last.pid)

\* the ids of the model entries that have one, in configured order
RECURSIVE IdsOf(_)
IdsOf(models) ==
  IF models = <<>> THEN <<>>
  ELSE IF Head(models).id = Absent THEN IdsOf(Tail(models))
  ELSE <<Head(models).id>> \o IdsOf(Tail(models))

ConfiguredIds == IdsOf(Called.models.items)

AllModelsHaveId == Len(ConfiguredIds) = Len(Called.models.items)

HasBaseUrl == Called.base_url \notin {Absent, ""}

ReturnedFailure ==
  last.res.kind = "return" /\ ~last.res.success /\ last.res.error # <<>>

\* the stored credential the key lookup selects for the called provider
Selected == get_default_provider_api_key(providers, last.pid)

EnvSet(name) == name \in DOMAIN env /\ env[name].set /\ env[name].v # <<>>

\* the selected credential is a non-empty string that names a secret:
\* literally, or through a placeholder whose variable is set
CredentialResolves ==
  /\ ~Selected.raised
  /\ Selected.val.t = "str"
  /\ Selected.val.v # <<>>
  /\ IsPlaceholder(Selected.val.v) => EnvSet(PlaceholderName(Selected.val.v))

(***************************************************************************)
(* C1.  A chat completion for an unknown provider, or for a model that is  *)
(* not among the provider's configured model ids, ends in a returned       *)
(* failure and sends no POST; a call sends at most one POST, and only      *)
(* after the provider, base_url, credential and model checks passed.       *)
(***************************************************************************)
C1_NoPostOnUnknown ==
  ChatDone =>
    /\ (~KnownProvider \/ last.mid \notin Range(ConfiguredIds))
         => ReturnedFailure /\ last.posts = <<>>
    /\ Len(last.posts) <= 1
    /\ last.posts # <<>>
         => /\ KnownProvider
            /\ HasBaseUrl
            /\ last.posts[1].auth # <<>>
            /\ last.mid \in Range(ConfiguredIds)

ModelError ==
  <<"Model ", last.mid, " not available for provider ", last.pid,
    ". Available: ">> \o ConfiguredIds

ExactPlaceholder(c) ==
  /\ c.t = "str"
  /\ IsPlaceholder(c.v)
  /\ PlaceholderName(c.v) # <<>>
  /\ \A i \in 1..Len(PlaceholderName(c.v)) :
       PlaceholderName(c.v)[i] \notin {"$", "{", "}"}

ModelIsConfigured == AllModelsHaveId /\ last.mid \in Range(ConfiguredIds)

C3_PlaceholderOrLiteral ==
  (ChatDone /\ KnownProvider /\ HasBaseUrl /\ ~Selected.raised
     /\ Truthy(Selected.val))
    => LET c == Selected.val
           name == PlaceholderName(c.v)
       IN IF ExactPlaceholder(c)
          THEN IF EnvSet(name)
               THEN ModelIsConfigured
                      => /\ Len(last.posts) = 1
                         /\ last.posts[1].auth = env[name].v
               ELSE /\ last.posts = <<>>
                    /\ last.res = Failure(<<"Environment variable ">> \o name
                                          \o <<" for API key not set">>)
          ELSE ModelIsConfigured
                 => /\ Len(last.posts) = 1
                    /\ last.posts[1].auth = c.v

(***************************************************************************)
(* C4.  get_default_provider_api_key returns the value stored under        *)
(* 'openai' whenever the provider's api_keys has such an entry, whatever   *)
(* its position; otherwise the first non-empty value in iteration order.   *)
(***************************************************************************)
KeyDone == pc = "done" /\ last.op = "get_default_provider_api_key"

KeyItems == Called.api_keys.items

\* the first truthy value of the mapping, None when there is none
RECURSIVE FirstNonEmpty(_)
FirstNonEmpty(items) ==
  IF items = <<>> THEN NoneV
  ELSE IF Truthy(Head(items).v) THEN Head(items).v
  ELSE FirstNonEmpty(Tail(items))

C4_PrefersOpenai ==
  (KeyDone /\ KnownProvider /\ Called.api_keys.t = "map")
    => /\ last.res.kind = "return"
       /\ IF \E i \in 1..Len(KeyItems) : KeyItems[i].k = "openai"
          THEN \E i \in 1..Len(KeyItems) :
                 KeyItems[i].k = "openai" /\ last.key = KeyItems[i].v
          ELSE last.key = FirstNonEmpty(KeyItems)

(***************************************************************************)
(* C5.  Whenever load_providers_from_config returns failure, the provider  *)
(* set is empty afterwards; it is never left partially populated.          *)
(***************************************************************************)
LoadDone == pc = "done" /\ last.op \in {"init", "load"}

C5_FailedLoadLeavesEmpty == (LoadDone /\ ~last.ret) => providers = <<>>

(***************************************************************************)
(* C6 as claimed.  After a successful load of a file that declares N       *)
(* provider records, get_available_providers returns exactly N ids, in     *)
(* file order, and get_provider_info(id) returns the corresponding record. *)
(***************************************************************************)
Records == last.file.records

C6_ExactlyNInFileOrder ==
  (LoadDone /\ last.ret)
    => /\ get_available_providers(providers)
            = [i \in 1..Len(Records) |-> Records[i].id]
       /\ \A i \in 1..Len(Records) :
            get_provider_info(providers, Records[i].id) = Records[i]

\* the positions of the file's records that carry an id
WithId == { i \in 1..Len(Records) : Records[i].id \notin {Absent, ""} }

\* the positions where an id appears for the first time
FirstOfId == { i \in WithId : \A j \in WithId : j < i => Records[j].id # Records[i].id }

\* the positions where an id appears for the last time
LastOfId == { i \in WithId : \A j \in WithId : j > i => Records[j].id # Records[i].id }

\* the ids at the positions P, in file order
RECURSIVE IdsAt(_, _)
IdsAt(P, i) ==
  IF i > Len(Records) THEN <<>>
  ELSE IF i \in P THEN <<Records[i].id>> \o IdsAt(P, i + 1)
  ELSE IdsAt(P, i + 1)

(***************************************************************************)
(* C6 as amended.  After a successful load, every id of the file is listed *)
(* once by get_available_providers and get_provider_info(id) returns the   *)
(* last record the file declares with that id; records without an id are   *)
(* dropped.  When the integrator held no providers before the load, the    *)
(* list is exactly the distinct ids of the file in order of first          *)
(* appearance.                                                             *)
(***************************************************************************)
C6_DistinctIdsInFileOrder ==
  (LoadDone /\ last.ret)
    => /\ \A i \in LastOfId :
            get_provider_info(providers, Records[i].id) = Records[i]
       /\ Injective(get_available_providers(providers))
       /\ last.before = <<>>
            => get_available_providers(providers) = IdsAt(FirstOfId, 1)

C6_Witness ==
  /\ LoadDone /\ last.ret /\ last.before = <<>>
  /\ Len(Records) = 3
  /\ Cardinality(WithId) = 2
  /\ get_available_providers(providers) = <<"p2", "p1">>

(***************************************************************************)
(* C7.  chat_completion never raises: for every provider configuration     *)
(* and every server or transport outcome it returns a mapping with a       *)
(* boolean 'success', and every failure carries an error message.          *)
(***************************************************************************)
C7_NeverRaises ==
  ChatDone
    => /\ last.res.kind = "return"
       /\ ~last.res.success => last.res.error # <<>>

(***************************************************************************)
(* C8.  When the POST of chat_completion fails with a transport            *)
(* exception, the failure returned wraps the cause and its message         *)
(* contains the id of the provider that was called.                        *)
(***************************************************************************)
TransportFailed ==
  /\ ChatDone
  /\ Len(last.posts) = 1
  /\ OutcomeAt(last.script, 1).t \in {"error", "hang"}

C8_TransportFailureNamesProvider ==
  TransportFailed
    => /\ ReturnedFailure
       /\ \/ CauseText \in Range(last.res.error)
          \/ TimeoutText \in Range(last.res.error)
       /\ last.pid \in Range(last.res.error)

(***************************************************************************)
(* C9.  Every request chat_completion sends carries a finite, positive     *)
(* timeout of at most 30 seconds, so that a provider that never answers    *)
(* makes the call return a failure and not block; every request sent       *)
(* through a Venice session carries the (connect, read) timeout (10, 120). *)
(***************************************************************************)
C9_EveryRequestHasTimeout ==
  pc = "done"
    => /\ \A i \in 1..Len(last.posts) :
            LET t == last.posts[i].timeout IN
              /\ t.set /\ t.connect > 0 /\ t.read > 0
              /\ IF last.op = "chat_completion"
                 THEN t.connect <= 30 /\ t.read <= 30
                 ELSE t.connect = 10 /\ t.read = 120
       /\ last.res.kind # "blocked"
       /\ (ChatDone /\ OutcomeAt(last.script, 1).t = "hang")
            => ReturnedFailure

C9_Witness ==
  /\ ChatDone
  /\ Len(last.posts) = 1
  /\ OutcomeAt(last.script, 1).t = "hang"
  /\ ReturnedFailure

(***************************************************************************)
(* C10.  Every outward network call goes through the retrying session: a   *)
(* server that answers 503 three times and then 200 yields a success, and  *)
(* a retryable status reaches the caller only after the retries are        *)
(* exhausted.                                                              *)
(***************************************************************************)
NetworkOps ==
  {"chat_completion", "generate_image", "upscale_image_bytes",
   "fetch_models", "verify_api_key"}

ThreeTimes503 ==
  <<Answer(503, TRUE), Answer(503, TRUE), Answer(503, TRUE), Answer(200, TRUE)>>

C10_EveryCallRetries ==
  (pc = "done" /\ last.op \in NetworkOps)
    => /\ last.script = ThreeTimes503
            => last.res.kind = "return" /\ last.res.success
       /\ last.res.status \in StatusForcelist
            => Len(last.posts) = RetryTotal + 1

(***************************************************************************)
(* C11.  A GET or POST made through a session built by _session goes out   *)
(* at most RetryTotal + 1 times (five retries), and an attempt is followed *)
(* by another one only after a connect failure, a read failure or a status *)
(* of the force list; the call never blocks, and when every attempt met a  *)
(* retryable outcome the session call raises a transport error to its      *)
(* caller: verify_api_key and fetch_models report it as "Request failed",  *)
(* the image operations let it through; no response is returned.           *)
(***************************************************************************)
SessionOps ==
  {"generate_image", "upscale_image_bytes", "fetch_models", "verify_api_key"}

RetryableOutcome(o) ==
  \/ o.t \in {"error", "hang"}
  \/ o.t = "status" /\ o.code \in StatusForcelist

\* a call that makes one session request
OneSessionRequest ==
  /\ pc = "done" /\ last.op \in SessionOps
  /\ ~(last.op = "generate_image" /\ last.flag)

AllAttemptsRetryable ==
  \A k \in 1..(RetryTotal + 1) : RetryableOutcome(OutcomeAt(last.script, k))

TransportErrorReachedCaller ==
  IF last.op \in {"verify_api_key", "fetch_models"}
  THEN /\ ReturnedFailure
       /\ last.res.error = <<"Request failed: ", "Max retries exceeded">>
       /\ last.res.status = 0
  ELSE last.res.kind = "raise" /\ last.res.exc = "RequestException"

C11_AtMostFiveRetries ==
  /\ (pc = "done" /\ last.op \in SessionOps)
       => /\ last.res.kind # "blocked"
          /\ Len(last.posts) <=
               (IF last.flag THEN 2 ELSE 1) * (RetryTotal + 1)
  /\ OneSessionRequest
       => /\ Len(last.posts) <= RetryTotal + 1
          /\ \A k \in 1..(Len(last.posts) - 1) :
               RetryableOutcome(OutcomeAt(last.script, k))
          /\ AllAttemptsRetryable
               => Len(last.posts) = RetryTotal + 1
                    /\ TransportErrorReachedCaller

C11_Witness ==
  /\ OneSessionRequest
  /\ AllAttemptsRetryable
  /\ Len(last.posts) = RetryTotal + 1
  /\ last.res.kind = "raise"

(***************************************************************************)
(* C12.  After every successful generate_image the metadata file holds,    *)
(* as width and height of the request parameters, the resolved dimensions  *)
(* that went out in the body of the generation request, never None.        *)
(***************************************************************************)
Generated ==
  /\ pc = "done" /\ last.op = "generate_image"
  /\ last.res.kind = "return" /\ last.res.success

\* the metadata record the call reports, as it is on disk
MetadataOnDisk == fs[last.out.meta].data

C12_MetadataHoldsResolvedDims ==
  Generated
    => /\ last.out.meta \in DOMAIN fs
       /\ MetadataOnDisk.width.t = "int"
       /\ MetadataOnDisk.height.t = "int"
       /\ MetadataOnDisk.width.v = last.posts[1].width
       /\ MetadataOnDisk.height.v = last.posts[1].height

(***************************************************************************)
(* C13.  A successful generate_image without a seed never writes its image *)
(* to the path of an image that an earlier call of the same process wrote: *)
(* the path it reports did not exist on disk when the call began, however  *)
(* little time has passed since the earlier call.                          *)
(***************************************************************************)
C13_NeverOverwritesEarlierImage ==
  (Generated /\ last.args.seed.t = "none")
    => last.out.img \notin DOMAIN last.disk

(***************************************************************************)
(* C14.  The final path of an image (a generated image, an auto-upscaled   *)
(* image, an output of upscale_image_file) never holds the content of a    *)
(* write that did not end, whether the write failed or the process was     *)
(* killed during it: content that is cut short exists under the            *)
(* temporary .part name only.                                              *)
(***************************************************************************)
ImageFinalPaths == { p \in DOMAIN fs : p.suffix = <<OutputFormat>> }

C14_FinalPathNeverCutShort == \A p \in ImageFinalPaths : fs[p].complete

(***************************************************************************)
(* C15.  With auto_upscale, once generate_image has sent the upscale       *)
(* request the image and its metadata are on disk, complete, and whatever  *)
(* fails in the upscale step (an HTTP error, exhausted retries, a response *)
(* that cannot be decoded, a failed write of the upscaled file) the call   *)
(* returns success with the image path, the metadata path and the hash,    *)
(* carries upscale_error and reports no upscaled image path.               *)
(***************************************************************************)
UpscaleAttempted ==
  /\ pc = "done" /\ last.op = "generate_image" /\ last.flag
  /\ \E k \in 1..Len(last.posts) : last.posts[k].path = "/image/upscale"

\* the outcome the server gave to the last attempt of the call
LastOutcome == OutcomeAt(last.script, Len(last.posts))

UpscaleFailedOnWire ==
  \/ RetryableOutcome(LastOutcome)
  \/ LastOutcome.t = "status" /\ (LastOutcome.code >= 400 \/ ~LastOutcome.json)

UpscaleUndecodable == DecodeUpscaled(last.up).raised

UpscaledWriteFailed == last.fault = Fault("up", "oserror")

UpscaleFailed ==
  UpscaleFailedOnWire \/ UpscaleUndecodable \/ UpscaledWriteFailed

\* the image and the metadata of the call are on disk, complete
GeneratedPersisted ==
  LET stem == Stem(last.args.seed, last.now) IN
    /\ img_path(stem) \in DOMAIN fs /\ meta_path(stem) \in DOMAIN fs
    /\ fs[img_path(stem)].complete /\ fs[meta_path(stem)].complete
    /\ fs[meta_path(stem)].data.output_sha256
         = _sha256(fs[img_path(stem)].data)

C15_UpscaleFailureIsNotFatal ==
  UpscaleAttempted
    => /\ GeneratedPersisted
       /\ last.res.kind # "raise"
       /\ UpscaleFailed
            => /\ last.res.kind = "return" /\ last.res.success
               /\ last.out.img = img_path(Stem(last.args.seed, last.now))
               /\ last.out.meta = meta_path(Stem(last.args.seed, last.now))
               /\ last.out.sha = _sha256(fs[last.out.img].data)
               /\ last.out.up_error # <<>>
               /\ last.out.up = NoPath

C15_Witness ==
  /\ UpscaleAttempted
  /\ UpscaledWriteFailed /\ ~UpscaleFailedOnWire /\ ~UpscaleUndecodable
  /\ last.res.kind = "return" /\ last.res.success
  /\ last.out.up_error = <<"OSError">>
  /\ PartOf(up_path(Stem(last.args.seed, last.now))) \in DOMAIN fs

(***************************************************************************)
(* C16.  The decoding of generate_image gives the raw body of a response   *)
(* whose Content-Type begins with image/; of a JSON response it gives the  *)
(* base64-decoded string "image" or first string of "images", and it fails *)
(* only when the JSON offers neither a string "image" nor an "images" list *)
(* that begins with a string, and always when "image" is no string and     *)
(* "images" is no non-empty list.                                          *)
(***************************************************************************)
DecodedGeneration == pc = "done" /\ last.op = "decode_generated"

OffersImage == last.body.image.t = "str"

OffersImages ==
  /\ last.body.images.t = "list"
  /\ last.body.images.items # <<>>
  /\ last.body.images.items[1].t = "str"

OfferedPayloads ==
  { b64decode[last.body.image.v] : x \in { y \in {TRUE} : OffersImage } }
  \cup
  { b64decode[last.body.images.items[1].v] :
      x \in { y \in {TRUE} : OffersImages } }

C16_DecodesWhicheverIsPresent ==
  DecodedGeneration
    => IF _is_binary_image_response(last.body)
       THEN last.val = Returned(last.body.content)
       ELSE /\ last.val.raised => ~(OffersImage \/ OffersImages)
            /\ (~OffersImage /\ ~(last.body.images.t = "list"
                                   /\ last.body.images.items # <<>>))
                 => last.val.raised
            /\ (~last.val.raised /\ (OffersImage \/ OffersImages))
                 => last.val.v \in OfferedPayloads

(***************************************************************************)
(* C17.  On every body of a 2xx response the decoder of the upscale path   *)
(* and the decoder of the generation path agree: both fail, or both give   *)
(* the same bytes.                                                         *)
(***************************************************************************)
SameDecoding(a, b) ==
  \/ a.raised /\ b.raised
  \/ ~a.raised /\ ~b.raised /\ a.v = b.v

C17_DecodersAgree ==
  /\ DecodedGeneration => SameDecoding(last.val, DecodeUpscaled(last.body))
  /\ (pc = "done" /\ last.op = "decode_upscaled")
       => SameDecoding(last.val, DecodeGenerated(last.body))

(***************************************************************************)
(* C18.  _effective_dims returns (width, height) when a width and a height *)
(* are given, and otherwise the size that aspect_to_size maps the aspect   *)
(* name to; for an aspect name that is not in the map it fails with the    *)
(* invalid-aspect-ratio error that lists the valid names.                  *)
(***************************************************************************)
DimsDone == pc = "done" /\ last.op = "_effective_dims"

BothGiven == last.args.width.t = "int" /\ last.args.height.t = "int"

InvalidAspectRatio ==
  Raised("ValueError", <<"Invalid aspect ratio: ", last.args.aspect,
                         ". Choose from ", <<"square", "tall", "wide">> >>)

C18_ExplicitDimsOrAspect ==
  DimsDone
    => IF BothGiven
       THEN last.val = Returned(<<last.args.width.v, last.args.height.v>>)
       ELSE IF last.args.aspect = "square"
       THEN last.val = Returned(<<1024, 1024>>)
       ELSE IF last.args.aspect = "tall"
       THEN last.val = Returned(<<768, 1024>>)
       ELSE IF last.args.aspect = "wide"
       THEN last.val = Returned(<<1024, 768>>)
       ELSE last.val = InvalidAspectRatio

(***************************************************************************)
(* The public methods of QwenCLIIntegrator.                                *)
(***************************************************************************)
IntegratorOps ==
  {"gitkraken_command", "venice_generate_image", "venice_upscale_image",
   "list_available_models", "external_chat_completion",
   "list_external_providers", "verify_venice_api", "update_venice_config"}

IntegratorDone == pc = "done" /\ last.op \in IntegratorOps

\* the operation the method hands its work to ended with an exception
OperationRaised == last.inner.kind = "raise"

ReturnedError ==
  last.res.kind = "return" /\ ~last.res.success /\ last.res.error # <<>>

MainChatDone ==
  pc = "done" /\ last.op = "main_external_chat" /\ last.res.kind = "return"

\* what the run had to print: the result of the call
ChatResult == ResultDocument(last.res, last.payload)

\* the values at the sensitive keys of a document, at any depth
RECURSIVE SensitiveValues(_)
SensitiveValues(value) ==
  IF value.t = "scalar" THEN {}
  ELSE IF value.t = "list"
  THEN UNION { SensitiveValues(value.items[i]) : i \in 1..Len(value.items) }
  ELSE UNION { IF normalize(value.items[i].k) \in SensitiveKeys
               THEN { value.items[i].v }
               ELSE SensitiveValues(value.items[i].v) :
               i \in 1..Len(value.items) }

\* C20: on the external-provider chat path the response goes through redact
\* before it is printed, so what is printed is the redacted result: every
\* value at a sensitive key is the marker, at any depth, and redacting the
\* printed document again changes nothing.
C20_ChatOutputIsRedacted ==
  MainChatDone =>
    /\ last.printed = redact(ChatResult)
    /\ SensitiveValues(last.printed) \subseteq {RedactionMarker}
    /\ redact(last.printed) = last.printed

(***************************************************************************)
(* venice_integration.main.                                                *)
(***************************************************************************)
VeniceMainDone == pc = "done" /\ last.op = "venice_main"

\* the run had a key and its last action returned a result
RanToResult == last.argv.api_key /\ last.res.kind = "return"

VerifyAlone ==
  last.argv.verify /\ ~last.argv.update_config /\ ~last.argv.list_models

UpdateConfigAlone ==
  last.argv.update_config /\ ~last.argv.verify /\ ~last.argv.list_models

\* C21: a run with a key and --verify alone calls verify_api_key exactly
\* once and exits with 0; a run with --update-config alone calls
\* update_raycast_config exactly once and exits with 0
C21_SingleActionExitsZero ==
  (VeniceMainDone /\ RanToResult) =>
    /\ VerifyAlone =>
         /\ SelectSeq(last.calls, LAMBDA c : c = "verify") = <<"verify">>
         /\ last.code = 0
    /\ UpdateConfigAlone =>
         /\ SelectSeq(last.calls, LAMBDA c : c = "update_config")
              = <<"update_config">>
         /\ last.code = 0

\* C22: no run takes both the --verify action and the --update-config
\* action
C22_VerifyAndUpdateExclusive ==
  VeniceMainDone =>
    ~("verify" \in Range(last.calls) /\ "update_config" \in Range(last.calls))

(***************************************************************************)
(* GitKrakenCLI.run_command.                                               *)
(***************************************************************************)
RunCommandDone == pc = "done" /\ last.op = "run_command"

CliKnown == is_installed(last.self.cli_path)

\* the child process ended by itself within the timeout
RanToExit == last.proc.t = "exit" /\ last.proc.secs <= CommandTimeout

StructuredFailure ==
  last.res.kind = "return" /\ ~last.res.success /\ last.res.error # <<>>

\* C23: run_command never raises; with no CLI path it launches nothing and
\* returns a failure; when the process runs to its exit, success is TRUE
\* exactly when the exit code is 0; a run that exceeds the timeout of 30
\* seconds, or that cannot be launched, returns a failure with an error
C23_RunCommandIsStructured ==
  RunCommandDone =>
    /\ last.res.kind = "return"
    /\ ~CliKnown => ~last.launched /\ StructuredFailure
    /\ (CliKnown /\ RanToExit) =>
         /\ last.launched
         /\ last.res.success <=> last.proc.code = 0
    /\ (CliKnown /\ ~RanToExit) => StructuredFailure

\* a command that ran past the timeout came back as 'Command timed out'
C23_Witness ==
  /\ RunCommandDone
  /\ CliKnown
  /\ last.proc.t = "exit" /\ last.proc.secs > CommandTimeout
  /\ last.res.error = <<"Command timed out">>

(***************************************************************************)
(* The request body of chat_completion.                                    *)
(***************************************************************************)
\* a chat completion that sent its POST
Posted == ChatDone /\ last.posts # <<>>

BodyKeys == Range(Keys(last.data))

\* the extra keyword arguments whose value is not None
GivenKwargs == { i \in 1..Len(last.call.kwargs) : last.call.kwargs[i].v.t # "none" }

\* C24: the body of the POST holds model, messages and temperature, holds
\* max_tokens whenever the caller gave a max_tokens other than None, holds
\* every extra parameter whose value is not None, and holds nothing else
C24_BodyIsExactlyTheArguments ==
  Posted =>
    /\ BodyKeys = {"model", "messages", "temperature"}
                    \cup (IF last.call.max_tokens.t # "none"
                          THEN {"max_tokens"} ELSE {})
                    \cup { last.call.kwargs[i].k : i \in GivenKwargs }
    /\ last.call.max_tokens.t # "none" =>
         Lookup(last.data, "max_tokens") = last.call.max_tokens
    /\ \A i \in GivenKwargs :
         Lookup(last.data, last.call.kwargs[i].k) = last.call.kwargs[i].v

\* C27: the model of every POST is the model_id that was validated against
\* the provider's models, and the messages and the temperature sent are
\* the caller's, whatever extra parameters the caller gives
C27_ModelSentIsModelValidated ==
  Posted =>
    /\ Lookup(last.data, "model") = SVal(last.mid)
    /\ last.posts[1].model = last.mid
    /\ last.mid \in Range(AvailableModels(
                             get_provider_models(providers, last.pid)).ids)
    /\ Lookup(last.data, "messages") = last.call.messages
    /\ Lookup(last.data, "temperature") = last.call.temperature

(***************************************************************************)
(* VeniceAIConfigUpdater.update_raycast_config.                            *)
(***************************************************************************)
UpdateDone == pc = "done" /\ last.op = "update_raycast_config"

\* what the verification of this call returned, and what the fetch of the
\* catalog returns after it
Verification == verify_api_key(last.script)

Fetch == fetch_models(Drop(last.script, Len(Verification.posts)))

Succeeded(res) == res.kind = "return" /\ res.success

IsFetch(req) == req.method = "GET" /\ req.path = "/models"

FetchSent == \E i \in 1..Len(last.posts) : IsFetch(last.posts[i])

\* C25: update_raycast_config verifies the key before it fetches the
\* catalog; it writes the providers file only if the verification and the
\* fetch succeeded; a failed verification is returned unchanged, with no
\* fetch and no write; a failed fetch is returned unchanged, with no write
C25_VerifyThenGenerate ==
  UpdateDone =>
    /\ \A i, j \in 1..Len(last.posts) :
         (IsFetch(last.posts[i]) /\ ~IsFetch(last.posts[j])) => j < i
    /\ fs # last.disk =>
         Succeeded(Verification.res) /\ Succeeded(Fetch.res)
    /\ ~Succeeded(Verification.res) =>
         ~FetchSent /\ fs = last.disk /\ last.res = Verification.res
    /\ (Succeeded(Verification.res) /\ ~Succeeded(Fetch.res)) =>
         FetchSent /\ fs = last.disk /\ last.res = Fetch.res

\* the key was refused: the refusal came back and nothing else happened
C25_Witness ==
  /\ UpdateDone
  /\ last.res.kind = "return" /\ last.res.error = <<"Invalid API key">>
  /\ ~FetchSent
  /\ fs = last.disk

(***************************************************************************)
(* The providers file written by generate_raycast_config.                  *)
(***************************************************************************)
\* a generation that wrote the whole file
GeneratedConfig ==
  /\ pc = "done" /\ last.op = "generate_raycast_config"
  /\ last.res.kind = "return" /\ last.res.success

WrittenText == fs[ConfigPath].data

\* what an ExternalAPIIntegrator holds once made from the written file
LoadedWritten == load_providers_from_config(<<>>, safe_load(WrittenText)).providers

\* every credential the text holds
WrittenCredentials ==
  { WrittenText[i].c : i \in { j \in 1..Len(WrittenText) : WrittenText[j].depth = 2 /\ WrittenText[j].c # <<>> } }

\* the POST of a chat with the loaded provider carries the value of the
\* environment variable, and without a value there is no POST
ChatUsesEnvironment(d, model_id) ==
  LET c == chat_completion(d, env, "venice", model_id, Answer(200, TRUE)) IN
  IF EnvSet(EnvName)
  THEN Len(c.posts) = 1 /\ c.posts[1].auth = env[EnvName].v
  ELSE c.posts = <<>>

\* C26: the written configuration is the same for every API key and the
\* same catalog, its only credential is the placeholder of
\* VENICE_API_KEY, and an ExternalAPIIntegrator made from it has the one
\* provider "venice", whose chats take their credential from the
\* environment variable VENICE_API_KEY
C26_ConfigHoldsNoKey ==
  /\ (ChatDone /\ last.posts # <<>>) =>
       /\ last.pid = "venice"
       /\ last.posts[1].base = VeniceBase
       /\ last.posts[1].auth = env[EnvName].v
  /\ GeneratedConfig =>
      /\ \A k \in UpdaterKeys :
           WrittenText = yaml_dump(raycast_config(k, last.catalog))
      /\ WrittenCredentials = {Placeholder(EnvName)}
      /\ last.api_key.v \notin WrittenCredentials
      /\ Keys(LoadedWritten) = <<"venice">>
      /\ get_default_provider_api_key(LoadedWritten, "venice").val
           = Str(Placeholder(EnvName))
      /\ \A i \in 1..Len(last.catalog) :
           ChatUsesEnvironment(LoadedWritten, last.catalog[i].id)

\* an integrator made from the written file sent a chat to "venice" with
\* the credential of the environment
C26_Witness ==
  /\ ChatDone /\ last.pid = "venice"
  /\ ConfigPath \in DOMAIN fs
  /\ providers = load_providers_from_config(<<>>, safe_load(fs[ConfigPath].data)).providers
  /\ Len(last.posts) = 1
  /\ last.posts[1].auth = env[EnvName].v

(***************************************************************************)
(* Repeated loads on one integrator.                                       *)
(***************************************************************************)
\* the records with an id that the file of the last load declares
LatestRecords == { Records[i] : i \in WithId }

\* C28: after every load the providers held are exactly the records with
\* an id of the file loaded last: none is kept from an earlier load, and
\* after a failed load none of an earlier load is left
C28_HoldsOnlyTheLatestFile ==
  LoadDone =>
    /\ \A i \in 1..Len(providers) : providers[i].v \in LatestRecords
    /\ last.ret => \A r \in LatestRecords : HasKey(providers, r.id)

(***************************************************************************)
(* What generate_image leaves on disk.                                     *)
(***************************************************************************)
GenerateDone == pc = "done" /\ last.op = "generate_image"

\* the answer to the generation request of this call
GenerationResponse ==
  SessionRequest("POST", VeniceBase, "/image/generate", VeniceKey,
                 NoOverride, last.script).r

\* the call has no image: the aspect ratio is invalid, the transport
\* failed, the answer is not a 2xx, or the answer holds no image that can
\* be decoded
NoImageDecoded ==
  \/ _effective_dims(last.args.aspect, last.args.width,
                     last.args.height).raised
  \/ GenerationResponse.t # "response"
  \/ GenerationResponse.code >= 400
  \/ ~GenerationResponse.json
  \/ DecodeGenerated(last.body).raised

\* C29: a generate_image that ends without a decoded image has written
\* nothing, no directory and no file; and the metadata file of a call is
\* on disk only if its image file is
C29_NothingWrittenBeforeDecode ==
  GenerateDone =>
    /\ NoImageDecoded =>
         /\ fs = last.disk
         /\ last.res.kind \in {"raise", "blocked"}
    /\ meta_path(Stem(last.args.seed, last.now)) \in DOMAIN fs =>
         /\ img_path(Stem(last.args.seed, last.now)) \in DOMAIN fs
         /\ fs[img_path(Stem(last.args.seed, last.now))].complete

\* a 2xx answer without an image: the call raised and the disk is as it
\* was, without the directories
C29_Witness ==
  /\ GenerateDone
  /\ GenerationResponse.t = "response" /\ GenerationResponse.code = 200
  /\ DecodeGenerated(last.body).raised
  /\ last.res.kind = "raise"
  /\ DirPath("out") \notin DOMAIN fs
  /\ fs = last.disk

(***************************************************************************)
(* QwenCLIIntegrator.list_available_models.                                *)
(***************************************************************************)
\* a listing by an integrator that has a Venice client; last.inner is what
\* the fetch of the catalog returned
ListingDone ==
  pc = "done" /\ last.op = "list_available_models" /\ last.self.venice

\* C30: list_available_models returns success = TRUE only if the fetch of
\* the catalog succeeded, and a failed fetch (HTTP error, transport error,
\* retries exhausted) gives success = FALSE with an error
C30_ListingFailsWithTheFetch ==
  (ListingDone /\ last.res.kind = "return") =>
    /\ last.res.success => Succeeded(last.inner)
    /\ ~Succeeded(last.inner) => ~last.res.success /\ last.res.error # <<>>

====
